---- MODULE Spec2Model ----
(***************************************************************************)
(* Model of the agent-shop scheduler: the orchestrate() control loop of    *)
(* agent-shop/orchestrator.py, the eligibility function get_ready_tasks of *)
(* agent-shop/task_manager.py and the workspace naming of Worker.__init__  *)
(* in agent-shop/worker.py.                                                *)
(*                                                                         *)
(* The control loop is one coroutine: between two `await asyncio.sleep(2)` *)
(* it runs without yielding, so futures change their done() state only     *)
(* while the loop sleeps.  An action is one pass of one of the loop's      *)
(* inner `for` loops, with the straight-line code around it.               *)
(***************************************************************************)
EXTENDS Integers, Sequences, FiniteSets, TLC

VARIABLES
    tasks,                \* the loaded batch: list[Task], in input order
    max_workers,          \* orchestrate(max_workers=...)
    max_retries,          \* state.max_retries
    max_priority,         \* orchestrate(max_priority=...), None or an int
    priority_groups,      \* local of orchestrate: priority -> ids of its tasks
    sorted_priorities,    \* local of orchestrate: sorted(priority_groups.keys())
    completed_ids,        \* state.completed_ids
    failed_ids,           \* state.failed_ids
    active_workers,       \* state.active_workers: keys in dict insertion order
    worker_future,        \* state of the future stored under each key
    review_futures,       \* state.review_futures: keys in dict insertion order
    review_future,        \* state of the pipeline future under each key
    active_files,         \* state.active_files
    results,              \* state.results, kept per task_id: the loop reads
                          \* it only through `r.task_id == task_id`
    retry_counts,         \* state.retry_counts (a dict: partial function)
    current_priority_idx, \* index into sorted_priorities (0-based)
    current_priority,     \* state.current_priority
    done_ids,             \* the snapshot lists of the tick being processed
    done_review_ids,
    ready,                \* ready[:slots] still to be spawned in this tick
    workers,              \* every Worker constructed by run_worker, per task
    pc,                   \* position of the control loop
    pipeline,             \* frame of one _review_fix_merge_sync call
    calls,                \* what that call has invoked so far
    issue_source,         \* orchestrate's issue_source: None with a plan file
    marks,                \* the mark_complete / mark_failed calls it received
    data,                 \* load_tasks: the document yaml.safe_load returned
    plan,                 \* frame of one dry_run_plan call
    architect,            \* orchestrate's parameter `architect`
    description,          \* task.description of every task of the batch
    enrich_calls,         \* the _enrich_task_with_architect calls, per task
    run,                  \* frame of one Worker.run call
    cleanup               \* frame of one _cleanup_failed_branch call

vars == <<tasks, max_workers, max_retries, max_priority, priority_groups,
          sorted_priorities, completed_ids, failed_ids, active_workers,
          worker_future, review_futures, review_future, active_files,
          results, retry_counts, current_priority_idx, current_priority,
          done_ids, done_review_ids, ready, workers, pc, pipeline, calls,
          issue_source, marks, data, plan, architect, description,
          enrich_calls, run, cleanup>>

(***************************************************************************)
(* Bounds of the model                                                     *)
(***************************************************************************)
MaxWorkers == 2       \* max_workers is 1 (serial) or MaxWorkers
MaxRetries == 1       \* max_retries ranges over 0..MaxRetries
NumTiers == 2         \* priorities range over 1..NumTiers
MaxDeps == 1          \* a task of a scheduled batch names at most MaxDeps dependencies

TaskIds == {"a", "b"}
PlanIds == {"a", "b", "c"}
Files == {"x", "y"}
None == "None"
NoPriority == -1      \* max_priority = None

ExecVars == <<architect, description, enrich_calls, run, cleanup>>

\* a run without --architect, before any execution has started
OriginalDescription == <<"body">>
NoExecution ==
    /\ architect = FALSE
    /\ description = [t \in PlanIds |-> OriginalDescription]
    /\ enrich_calls = [t \in PlanIds |-> <<>>]
    /\ run = None
    /\ cleanup = None

(***************************************************************************)
(* Sequence helpers                                                        *)
(***************************************************************************)
Range(s) == {s[i] : i \in DOMAIN s}

Remove(s, e) == SelectSeq(s, LAMBDA z : z # e)

\* Python's s[:n], also for negative n
SlicePrefix(s, n) ==
    LET stop == IF n >= 0 THEN (IF n < Len(s) THEN n ELSE Len(s))
                ELSE (IF Len(s) + n > 0 THEN Len(s) + n ELSE 0)
    IN  SubSeq(s, 1, stop)

(***************************************************************************)
(* Task (worker.py) and the batches a run can load                         *)
(***************************************************************************)
TitleOf == ("a" :> <<"A", "d", "d", " ", "X", "!">>)
        @@ ("b" :> <<" ", "F", "i", "x", " ", "-", "b", "u", "g", " ">>)
        @@ ("c" :> <<"c", "2">>)

Task(id, files, deps, prio) ==
    [id |-> id, title |-> TitleOf[id], files_touched |-> files,
     depends_on |-> deps, priority |-> prio]

DepSets == {d \in SUBSET TaskIds : Cardinality(d) <= MaxDeps}

\* load_tasks accepts exactly the batches with unique ids whose depends_on
\* ids all exist in the batch; self-dependencies and cycles are accepted.
\* File names are interchangeable: when the first task names a single file,
\* that file is called x.
Batches ==
    { << Task("a", fa, da, pa), Task("b", fb, db, pb) >> :
        fa \in (SUBSET Files) \ {{"y"}}, fb \in SUBSET Files,
        da \in DepSets, db \in DepSets,
        pa \in 1..NumTiers, pb \in 1..NumTiers }

TaskById(id) == CHOOSE t \in Range(tasks) : t.id = id


(***************************************************************************)
(* get_ready_tasks (task_manager.py)                                       *)
(***************************************************************************)
\* list.sort(key=lambda t: t.priority) is stable: an element is placed
\* after every element already in the list whose key is not larger.
\* variant: an unstable sort, placing an element before its equals
RECURSIVE InsertByPriority_Unstable(_, _)
InsertByPriority_Unstable(sorted, t) ==
    IF sorted = <<>> THEN <<t>>
    ELSE IF t.priority <= Head(sorted).priority THEN <<t>> \o sorted
    ELSE <<Head(sorted)>> \o InsertByPriority_Unstable(Tail(sorted), t)

RECURSIVE InsertByPriority(_, _)
InsertByPriority(sorted, t) ==
    IF sorted = <<>> THEN <<t>>
    ELSE IF t.priority < Head(sorted).priority THEN <<t>> \o sorted
    ELSE <<Head(sorted)>> \o InsertByPriority(Tail(sorted), t)

RECURSIVE SortByPriority(_)
SortByPriority(s) ==
    IF s = <<>> THEN <<>>
    ELSE InsertByPriority(SortByPriority(SubSeq(s, 1, Len(s) - 1)), s[Len(s)])

\* variant: the dependency test is left out
IsReady_NoDeps(task, completed, locked) ==
    /\ task.id \notin completed
    /\ locked \cap task.files_touched = {}

\* variant: a dependency that failed counts as met
IsReady_DepsSettled(task, completed, locked) ==
    /\ task.id \notin completed
    /\ \A dep \in task.depends_on : dep \in completed \cup failed_ids'
    /\ locked \cap task.files_touched = {}

IsReady(task, completed, locked) ==
    /\ task.id \notin completed
    /\ \A dep \in task.depends_on : dep \in completed
    /\ locked \cap task.files_touched = {}

get_ready_tasks(ts, completed, locked) ==
    SortByPriority(SelectSeq(ts, LAMBDA t : IsReady(t, completed, locked)))

(***************************************************************************)
(* Worker.__init__ and Worker._slugify (worker.py): workspace identifiers. *)
(* Strings are sequences of characters.                                    *)
(***************************************************************************)
SlugMax == 50

LowerOf == ("A" :> "a") @@ ("F" :> "f") @@ ("X" :> "x")
Lower(c) == IF c \in DOMAIN LowerOf THEN LowerOf[c] ELSE c

Whitespace == {" "}
Alnum == {"a", "b", "c", "d", "e", "f", "g", "h", "i", "j", "k", "l", "m",
          "n", "o", "p", "q", "r", "s", "t", "u", "v", "w", "x", "y", "z",
          "0", "1", "2", "3", "4", "5", "6", "7", "8", "9"}

RECURSIVE LStrip(_, _)
LStrip(s, chars) ==
    IF s # <<>> /\ Head(s) \in chars THEN LStrip(Tail(s), chars) ELSE s

RECURSIVE RStrip(_, _)
RStrip(s, chars) ==
    IF s # <<>> /\ s[Len(s)] \in chars
    THEN RStrip(SubSeq(s, 1, Len(s) - 1), chars) ELSE s

Strip(s, chars) == RStrip(LStrip(s, chars), chars)

\* re.sub(r"[^a-z0-9]+", "-", s)
RECURSIVE SubNonAlnum(_)
SubNonAlnum(s) ==
    IF s = <<>> THEN <<>>
    ELSE IF Head(s) \in Alnum THEN <<Head(s)>> \o SubNonAlnum(Tail(s))
    ELSE <<"-">> \o SubNonAlnum(LStrip(s, {c \in Range(s) : c \notin Alnum}))

Slugify(text) ==
    LET lowered == [i \in DOMAIN text |-> Lower(text[i])]
        slug == Strip(SubNonAlnum(Strip(lowered, Whitespace)), {"-"})
    IN  SlicePrefix(slug, SlugMax)

DigitChars == <<"0", "1", "2", "3", "4", "5", "6", "7", "8", "9">>

\* str(n) for n >= 0
RECURSIVE Str(_)
Str(n) ==
    IF n < 10 THEN <<DigitChars[n + 1]>>
    ELSE Str(n \div 10) \o <<DigitChars[(n % 10) + 1]>>

WORKTREE_BASE == <<"/", "t", "m", "p", "/", "a", "g", "e", "n", "t", "-",
                   "w", "o", "r", "k", "t", "r", "e", "e", "s">>

\* _slugify on the titles of the model's tasks, computed once
SlugOfTitle ==
    [text \in {TitleOf[id] : id \in DOMAIN TitleOf} |-> Slugify(text)]

WorkspaceName(task, branch_suffix) ==
    <<task.id>> \o <<"-">> \o SlugOfTitle[task.title] \o branch_suffix

\* variant: the worktree path is built without the suffix
Worker_NoSuffix(task, branch_suffix) ==
    [branch |-> <<"a", "g", "e", "n", "t", "/">>
                \o WorkspaceName(task, branch_suffix),
     worktree_path |-> WORKTREE_BASE \o <<"/">>
                       \o WorkspaceName(task, <<>>)]

Worker(task, branch_suffix) ==
    [branch |-> <<"a", "g", "e", "n", "t", "/">>
                \o WorkspaceName(task, branch_suffix),
     worktree_path |-> WORKTREE_BASE \o <<"/">>
                       \o WorkspaceName(task, branch_suffix)]

\* run_worker(executor, state, task, worker_counter, branch_suffix=""): the
\* Worker it constructs
NoSuffix == <<>>
run_worker(task, branch_suffix) == Worker(task, branch_suffix)

\* branch_suffix = f"-retry-{retry_n}"
RetrySuffix(retry_n) == <<"-", "r", "e", "t", "r", "y", "-">> \o Str(retry_n)


(***************************************************************************)
(* orchestrate (orchestrator.py): set-up before the loop                   *)
(***************************************************************************)
RECURSIVE SortedSeq(_)
SortedSeq(S) ==
    IF S = {} THEN <<>>
    ELSE LET m == CHOOSE z \in S : \A w \in S : z <= w
         IN  <<m>> \o SortedSeq(S \ {m})

\* priority_groups.setdefault(t.priority, []).append(t), as the set of ids
\* the loop takes from each group
PriorityGroups(ts) ==
    [p \in {t.priority : t \in Range(ts)} |->
        {t.id : t \in {u \in Range(ts) : u.priority = p}}]

\* state.retry_counts.get(task_id, 0)
RetryCount(counts, task_id) ==
    IF task_id \in DOMAIN counts THEN counts[task_id] ELSE 0

\* state.retry_counts[task_id] = n
SetRetry(counts, task_id, n) ==
    [t \in (DOMAIN counts) \cup {task_id} |->
        IF t = task_id THEN n ELSE counts[t]]

\* Outcomes of a run_worker future.  Worker.run sets success only after
\* _create_pr returned an integer pr_number (worker.py:103-106, 642), so a
\* successful result without pull request ("ok_nopr") is not among them; it
\* fails ("fail") or, when the log write in its finally block raises, the
\* future raises ("raise").
WorkerOutcomes == {"ok_pr", "fail", "raise"}
PipelineOutcomes == {"landed", "failed", "raise"}

InitWith(batches, priorities, sources) ==
    /\ tasks \in batches
    /\ max_workers \in {1, MaxWorkers}
    /\ max_retries \in 0..MaxRetries
    /\ max_priority \in priorities
    /\ priority_groups = PriorityGroups(tasks)
    /\ sorted_priorities = SortedSeq(DOMAIN priority_groups)
    /\ completed_ids = {}
    /\ failed_ids = {}
    /\ active_workers = <<>>
    /\ worker_future = [t \in TaskIds |-> "none"]
    /\ review_futures = <<>>
    /\ review_future = [t \in TaskIds |-> "none"]
    /\ active_files = {}
    /\ results = [t \in TaskIds |-> <<>>]
    /\ retry_counts = <<>>
    /\ current_priority_idx = 0
    /\ current_priority = sorted_priorities[1]
    /\ done_ids = <<>>
    /\ done_review_ids = <<>>
    /\ ready = <<>>
    /\ workers = [t \in TaskIds |-> <<>>]
    /\ pc = "top"
    /\ pipeline = None
    /\ calls = None
    /\ issue_source \in sources
    /\ marks = [t \in TaskIds |-> <<>>]
    /\ data = None
    /\ plan = None

\* a run on a plan file, without --max-priority
Init == InitWith(Batches, {NoPriority}, {None}) /\ NoExecution

(***************************************************************************)
(* The loop body.  The coroutine runs from one `await asyncio.sleep(2)` to *)
(* the next without yielding.  An action is one pass of one of its `for`   *)
(* loops together with the straight-line code that follows it up to the    *)
(* next pass or the sleep.  The operators that continue a pass read the    *)
(* collections as the pass left them (primed).                             *)
(***************************************************************************)
\* for f in task_obj.files_touched: state.active_files.discard(f)
ReleaseFiles(locked, task_obj) == locked \ task_obj.files_touched

\* if retry_count < state.max_retries
ShouldRetry(retry_count) == retry_count < max_retries

\* the URL `gh pr create` printed for the n-th execution of a task: every
\* pull request has its own
PrUrls == <<"pr_url_1", "pr_url_2", "pr_url_3", "pr_url_4">>

\* the WorkerResult of the execution in flight for task_obj
WorkerResult(task_obj, outcome) ==
    [task_id |-> task_obj.id,
     branch |-> workers[task_obj.id][Len(workers[task_obj.id])].branch,
     success |-> outcome \in {"ok_pr", "ok_nopr"},
     pr_url |-> IF outcome = "ok_pr"
                THEN PrUrls[Len(workers[task_obj.id])] ELSE None]

\* the retry branch: spawn the retry worker for attempt retry_n
Relaunch(task_obj, retry_n) ==
    /\ retry_counts' = SetRetry(retry_counts, task_obj.id, retry_n)
    /\ active_files' =
           ReleaseFiles(active_files, task_obj) \cup task_obj.files_touched
    /\ active_workers' = Append(Remove(active_workers, task_obj.id),
                                task_obj.id)
    /\ worker_future' = [worker_future EXCEPT ![task_obj.id] = "pending"]
    /\ workers' = [workers EXCEPT ![task_obj.id] =
                      Append(@, run_worker(task_obj, RetrySuffix(retry_n)))]
    /\ UNCHANGED <<completed_ids, failed_ids, review_futures, review_future>>

\* the give-up branch: state.failed_ids.add(task_id)
GiveUp(task_obj, counts) ==
    /\ failed_ids' = failed_ids \cup {task_obj.id}
    /\ retry_counts' = counts
    /\ active_files' = ReleaseFiles(active_files, task_obj)
    /\ active_workers' = Remove(active_workers, task_obj.id)
    /\ worker_future' = [worker_future EXCEPT ![task_obj.id] = "none"]
    /\ UNCHANGED <<completed_ids, review_futures, review_future, workers>>

\* `except Exception as exc:` of the worker-future handler, entered with
\* the retry counts the dict holds at that moment
ExceptBranch(task_obj, counts) ==
    IF ShouldRetry(RetryCount(counts, task_obj.id))
    THEN Relaunch(task_obj, RetryCount(counts, task_obj.id) + 1)
    ELSE GiveUp(task_obj, counts)

\* variant: tasks in their pipeline are not excluded
FilterReady_NoReviewCheck(rdy, current_group_ids) ==
    SelectSeq(rdy, LAMBDA t :
        /\ t.id \in current_group_ids
        /\ t.id \notin Range(active_workers')
        /\ t.id \notin failed_ids'
        /\ t.id \notin completed_ids')

\* variant: failed tasks are not excluded
FilterReady_NoFailedCheck(rdy, current_group_ids) ==
    SelectSeq(rdy, LAMBDA t :
        /\ t.id \in current_group_ids
        /\ t.id \notin Range(active_workers')
        /\ t.id \notin Range(review_futures')
        /\ t.id \notin completed_ids')

\* variant: tasks outside the current priority group are not excluded
FilterReady_NoGroupCheck(rdy, current_group_ids) ==
    SelectSeq(rdy, LAMBDA t :
        /\ t.id \notin Range(active_workers')
        /\ t.id \notin failed_ids'
        /\ t.id \notin Range(review_futures')
        /\ t.id \notin completed_ids')

\* "Filter to current priority group and exclude already-active/settled tasks"
FilterReady(rdy, current_group_ids) ==
    SelectSeq(rdy, LAMBDA t :
        /\ t.id \in current_group_ids
        /\ t.id \notin Range(active_workers')
        /\ t.id \notin failed_ids'
        /\ t.id \notin Range(review_futures')
        /\ t.id \notin completed_ids')

\* variant: the running executions are not subtracted
Slots_IgnoreActive == max_workers

\* variant: a task in its pipeline occupies a slot as well
Slots_CountReviews ==
    max_workers - Len(active_workers') - Len(review_futures')

\* slots = max_workers - state.active
Slots == max_workers - Len(active_workers')

\* variant: without the safety exit
ComputeReady_NoSafetyExit ==
    LET current_group_ids ==
            priority_groups[sorted_priorities[current_priority_idx' + 1]]
        rdy == FilterReady(
                   get_ready_tasks(tasks, completed_ids', active_files'),
                   current_group_ids)
    IN  IF Cardinality(completed_ids' \cup failed_ids') = Len(tasks)
        THEN /\ pc' = "exited"
             /\ UNCHANGED ready
        ELSE /\ ready' = SlicePrefix(rdy, Slots)
             /\ pc' = IF ready' = <<>> THEN "sleep" ELSE "dispatch"

\* variant: the safety exit does not look at the pipelines
ComputeReady_ExitIgnoresReviews ==
    LET current_group_ids ==
            priority_groups[sorted_priorities[current_priority_idx' + 1]]
        rdy == FilterReady(
                   get_ready_tasks(tasks, completed_ids', active_files'),
                   current_group_ids)
    IN  IF Cardinality(completed_ids' \cup failed_ids') = Len(tasks)
        THEN /\ pc' = "exited"
             /\ UNCHANGED ready
        ELSE IF Len(active_workers') = 0 /\ rdy = <<>>
        THEN /\ pc' = "exited"
             /\ UNCHANGED ready
        ELSE /\ ready' = SlicePrefix(rdy, Slots)
             /\ pc' = IF ready' = <<>> THEN "sleep" ELSE "dispatch"

\* "Are we done?", "Determine ready tasks", "Safety exit", ready[:slots];
\* with nothing to spawn the loop reaches `await asyncio.sleep(2)`.
ComputeReady ==
    LET current_group_ids ==
            priority_groups[sorted_priorities[current_priority_idx' + 1]]
        rdy == FilterReady(
                   get_ready_tasks(tasks, completed_ids', active_files'),
                   current_group_ids)
    IN  IF Cardinality(completed_ids' \cup failed_ids') = Len(tasks)
        THEN /\ pc' = "exited"
             /\ UNCHANGED ready
        ELSE IF Len(active_workers') = 0 /\ Len(review_futures') = 0
                /\ rdy = <<>>
        THEN /\ pc' = "exited"
             /\ UNCHANGED ready
        ELSE /\ ready' = SlicePrefix(rdy, Slots)
             /\ pc' = IF ready' = <<>> THEN "sleep" ELSE "dispatch"

\* variant: the tier is left as soon as none of its tasks is in flight
GroupSettled_NothingInFlight(group_ids) ==
    group_ids \cap (Range(active_workers') \cup Range(review_futures')) = {}

\* len(group_settled) == len(current_group_ids) and not group_in_flight
GroupSettled(group_ids) ==
    /\ Cardinality(group_ids \cap (completed_ids' \cup failed_ids'))
           = Cardinality(group_ids)
    /\ group_ids \cap (Range(active_workers') \cup Range(review_futures')) = {}

\* "Check if current priority group is complete; advance to next if so",
\* then, unless the loop breaks, the ready computation
AdvancePriority ==
    LET this_priority == sorted_priorities[current_priority_idx + 1]
        current_group_ids == priority_groups[this_priority]
    IN  IF GroupSettled(current_group_ids)
        THEN IF max_priority # NoPriority /\ this_priority >= max_priority
             THEN /\ pc' = "exited"
                  /\ UNCHANGED <<current_priority_idx, current_priority,
                                 ready>>
             ELSE IF current_priority_idx + 1 < Len(sorted_priorities)
             THEN /\ current_priority_idx' = current_priority_idx + 1
                  /\ current_priority' =
                         sorted_priorities[current_priority_idx + 2]
                  /\ ComputeReady
             ELSE /\ UNCHANGED <<current_priority_idx, current_priority>>
                  /\ ComputeReady
        ELSE /\ UNCHANGED <<current_priority_idx, current_priority>>
             /\ ComputeReady

\* done_review_ids = [tid for tid, f in state.review_futures.items() if f.done()]
\* after the last pass over done_ids; with no finished pipeline the `for`
\* loop over it has no pass
PollReviews ==
    /\ done_review_ids' = SelectSeq(review_futures',
                                    LAMBDA t : review_future'[t] # "pending")
    /\ IF done_review_ids' # <<>>
       THEN /\ pc' = "reviews"
            /\ UNCHANGED <<current_priority_idx, current_priority, ready>>
       ELSE AdvancePriority

\* One pass of `for task_id in done_ids:` on the snapshot list dids, and the
\* code after the loop when it was the last pass.  _cleanup_failed_branch
\* runs two subprocesses with timeout=120 inside the try block and may raise.
WorkerPass(dids) ==
    /\ done_ids' = Tail(dids)
    /\ UNCHANGED marks
    /\ LET task_id == Head(dids)
           task_obj == TaskById(task_id)
           outcome == worker_future[task_id]
           retry_count == RetryCount(retry_counts, task_id)
       IN  IF outcome = "raise"
           THEN /\ ExceptBranch(task_obj, retry_counts)
                /\ UNCHANGED results
           ELSE /\ results' = [results EXCEPT ![task_id] =
                                  Append(@, WorkerResult(task_obj, outcome))]
                /\ IF outcome = "ok_pr"
                   THEN /\ review_futures' = Append(review_futures, task_id)
                        /\ review_future' =
                               [review_future EXCEPT ![task_id] = "pending"]
                        /\ active_files' = ReleaseFiles(active_files, task_obj)
                        /\ active_workers' = Remove(active_workers, task_id)
                        /\ worker_future' =
                               [worker_future EXCEPT ![task_id] = "none"]
                        /\ UNCHANGED <<completed_ids, failed_ids,
                                       retry_counts, workers>>
                   ELSE IF outcome = "ok_nopr"
                   THEN /\ completed_ids' = completed_ids \cup {task_id}
                        /\ active_files' = ReleaseFiles(active_files, task_obj)
                        /\ active_workers' = Remove(active_workers, task_id)
                        /\ worker_future' =
                               [worker_future EXCEPT ![task_id] = "none"]
                        /\ UNCHANGED <<failed_ids, review_futures,
                                       review_future, retry_counts, workers>>
                   ELSE IF ShouldRetry(retry_count)
                   THEN \E cleanup_raises \in BOOLEAN :
                            IF cleanup_raises
                            THEN ExceptBranch(task_obj,
                                     SetRetry(retry_counts, task_id,
                                              retry_count + 1))
                            ELSE Relaunch(task_obj, retry_count + 1)
                   ELSE GiveUp(task_obj, retry_counts)
    /\ IF done_ids' # <<>>
       THEN /\ pc' = "workers"
            /\ UNCHANGED <<done_review_ids, current_priority_idx,
                           current_priority, ready>>
       ELSE PollReviews

\* `if issue_source and task_id.startswith("issue-")`: fetch_tasks names
\* every task it returns issue-<number>
FromIssue(task_id) == issue_source # None

\* task_result = next((r for r in state.results if r.task_id == task_id), None);
\* a pipeline is launched from a result, so there is one
FirstResult(task_id) == results[task_id][1]

\* Python's `value or default` on an optional string
OrElse(value, default) == IF value \in {None, ""} THEN default ELSE value

\* the error_msg a FAILED pipeline returned
PipelineErrorMsg == "error_msg"

\* issue_source.mark_complete(task_id, pr_url) and
\* issue_source.mark_failed(task_id, error), as received; what the call
\* raises is caught and logged
MarkComplete(task_id, pr_url) ==
    [marks EXCEPT ![task_id] = Append(@, <<"mark_complete", pr_url>>)]

MarkFailed(task_id, error) ==
    [marks EXCEPT ![task_id] = Append(@, <<"mark_failed", error>>)]

\* variant: a FAILED outcome is dropped, the task stays unsettled
ReviewPass_DropFailure(drids) ==
    /\ done_review_ids' = Tail(drids)
    /\ LET task_id == Head(drids)
           merged == review_future[task_id] = "landed"
       IN  /\ review_futures' = Remove(review_futures, task_id)
           /\ review_future' = [review_future EXCEPT ![task_id] = "none"]
           /\ completed_ids' =
                  IF merged THEN completed_ids \cup {task_id} ELSE completed_ids
           /\ failed_ids' = failed_ids
           /\ UNCHANGED marks
    /\ IF done_review_ids' # <<>>
       THEN /\ pc' = "reviews"
            /\ UNCHANGED <<current_priority_idx, current_priority, ready>>
       ELSE AdvancePriority

\* One pass of `for task_id in done_review_ids:` on the snapshot list drids,
\* and the code after the loop when it was the last pass
ReviewPass(drids) ==
    /\ done_review_ids' = Tail(drids)
    /\ LET task_id == Head(drids)
           merged == review_future[task_id] = "landed"
           task_result == FirstResult(task_id)
       IN  /\ review_futures' = Remove(review_futures, task_id)
           /\ review_future' = [review_future EXCEPT ![task_id] = "none"]
           /\ completed_ids' =
                  IF merged THEN completed_ids \cup {task_id} ELSE completed_ids
           /\ failed_ids' =
                  IF merged THEN failed_ids ELSE failed_ids \cup {task_id}
           /\ marks' =
                  IF ~FromIssue(task_id) THEN marks
                  ELSE IF merged
                  THEN MarkComplete(task_id, OrElse(task_result.pr_url, "N/A"))
                  ELSE IF review_future[task_id] = "failed"
                  THEN MarkFailed(task_id, OrElse(PipelineErrorMsg,
                                      "Review/fix/merge cycle failed"))
                  ELSE MarkFailed(task_id, "**Review step failed**")
    /\ IF done_review_ids' # <<>>
       THEN /\ pc' = "reviews"
            /\ UNCHANGED <<current_priority_idx, current_priority, ready>>
       ELSE AdvancePriority

\* `while True:` is entered from the set-up and re-entered when the sleep
\* returns: done_ids = [tid for tid, f in state.active_workers.items() if f.done()]
\* and the first pass over it; with no finished execution the loop goes on
\* to the finished pipelines and takes the first pass over those.
PollWorkers ==
    /\ pc \in {"top", "sleep"}
    /\ UNCHANGED <<pipeline, calls, issue_source, data, plan, ExecVars>>
    /\ UNCHANGED <<tasks, max_workers, max_retries, max_priority,
                   priority_groups, sorted_priorities>>
    /\ LET dids == SelectSeq(active_workers,
                             LAMBDA t : worker_future[t] # "pending")
           drids == SelectSeq(review_futures,
                              LAMBDA t : review_future[t] # "pending")
       IN  IF dids # <<>>
           THEN WorkerPass(dids)
           ELSE /\ UNCHANGED <<active_workers, worker_future, active_files,
                               results, retry_counts, done_ids, workers>>
                /\ IF drids # <<>>
                   THEN ReviewPass(drids)
                   ELSE /\ UNCHANGED <<completed_ids, failed_ids,
                                       review_futures, review_future,
                                       done_review_ids, marks>>
                        /\ AdvancePriority

\* a further pass of `for task_id in done_ids:`
HandleWorker ==
    /\ pc = "workers"
    /\ done_ids # <<>>
    /\ UNCHANGED <<pipeline, calls, issue_source, data, plan, ExecVars>>
    /\ UNCHANGED <<tasks, max_workers, max_retries, max_priority,
                   priority_groups, sorted_priorities>>
    /\ WorkerPass(done_ids)

\* a pass of `for task_id in done_review_ids:` after the loop over done_ids
\* had a pass, or a further one
HandleReview ==
    /\ pc = "reviews"
    /\ done_review_ids # <<>>
    /\ UNCHANGED <<pipeline, calls, issue_source, data, plan, ExecVars>>
    /\ UNCHANGED <<tasks, max_workers, max_retries, max_priority,
                   priority_groups, sorted_priorities,
                   active_workers, worker_future, active_files, results,
                   retry_counts, done_ids, workers>>
    /\ ReviewPass(done_review_ids)

\* One pass of `for task in ready[:slots]:`; after the last one the loop
\* reaches `await asyncio.sleep(2)`.
Dispatch ==
    /\ pc = "dispatch"
    /\ ready # <<>>
    /\ LET task == Head(ready)
       IN  /\ active_files' = active_files \cup task.files_touched
           /\ active_workers' = Append(Remove(active_workers, task.id), task.id)
           /\ worker_future' = [worker_future EXCEPT ![task.id] = "pending"]
           /\ workers' = [workers EXCEPT ![task.id] =
                             Append(@, run_worker(task, NoSuffix))]
    /\ ready' = Tail(ready)
    /\ pc' = IF Tail(ready) = <<>> THEN "sleep" ELSE "dispatch"
    /\ UNCHANGED <<pipeline, calls, issue_source, marks, data, plan, ExecVars>>
    /\ UNCHANGED <<tasks, max_workers, max_retries, max_priority,
                   priority_groups, sorted_priorities,
                   completed_ids, failed_ids, review_futures, review_future,
                   results, retry_counts, current_priority_idx,
                   current_priority, done_ids, done_review_ids>>

(***************************************************************************)
(* _enrich_task_with_architect (orchestrator.py), which run_worker submits *)
(* to the executor before it constructs the Worker when use_architect is   *)
(* set.  A description is the list of its sections.                        *)
(***************************************************************************)
\* `if not task.id.startswith("issue-"): return`: the tasks of a plan file
\* are named a, b, c, those of fetch_tasks issue-<number>
IsIssueId(task_id) == issue_source # None

\* agent.design() returns the spec or raises
EnrichOutcomes == {"spec", "raise"}

\* f"## Architect Spec\n{spec}\n\n## Original Issue\n{task.description}"
Augmented(spec, text) ==
    <<"## Architect Spec", spec, "## Original Issue">> \o text

\* the value of task.description when the call returns
enrich_task_with_architect(task_id, text, outcome) ==
    IF ~IsIssueId(task_id) THEN text
    ELSE IF outcome = "raise" THEN text
    ELSE Augmented(outcome, text)

\* run_worker(..., use_architect=architect) has not yet passed
\* `await loop.run_in_executor(executor, _enrich_task_with_architect, ...)`:
\* every launch of a task makes one call
EnrichPending(t) ==
    /\ architect
    /\ worker_future[t] = "pending"
    /\ Len(enrich_calls[t]) < Len(workers[t])

(***************************************************************************)
(* The futures: a run_worker future completes with a WorkerResult or an    *)
(* exception, a run_review_fix_merge future with (merged, error) or an     *)
(* exception.  The event loop completes them while the control loop is     *)
(* suspended in `await asyncio.sleep(2)`.                                  *)
(***************************************************************************)
WorkerFinishes ==
    /\ pc = "sleep"
    /\ \E t \in Range(active_workers), outcome \in WorkerOutcomes :
           /\ worker_future[t] = "pending"
           /\ ~EnrichPending(t)
           /\ worker_future' = [worker_future EXCEPT ![t] = outcome]
    /\ UNCHANGED <<pipeline, calls, issue_source, marks, data, plan, ExecVars>>
    /\ UNCHANGED <<tasks, max_workers, max_retries, max_priority,
                   priority_groups, sorted_priorities,
                   completed_ids, failed_ids, active_workers, review_futures,
                   review_future, active_files, results, retry_counts,
                   current_priority_idx, current_priority, done_ids,
                   done_review_ids, ready, workers, pc>>

PipelineFinishes ==
    /\ pc = "sleep"
    /\ \E t \in Range(review_futures), outcome \in PipelineOutcomes :
           /\ review_future[t] = "pending"
           /\ review_future' = [review_future EXCEPT ![t] = outcome]
    /\ UNCHANGED <<pipeline, calls, issue_source, marks, data, plan, ExecVars>>
    /\ UNCHANGED <<tasks, max_workers, max_retries, max_priority,
                   priority_groups, sorted_priorities,
                   completed_ids, failed_ids, active_workers, worker_future,
                   review_futures, active_files, results, retry_counts,
                   current_priority_idx, current_priority, done_ids,
                   done_review_ids, ready, workers, pc>>

Next ==
    \/ PollWorkers
    \/ HandleWorker
    \/ HandleReview
    \/ Dispatch
    \/ WorkerFinishes
    \/ PipelineFinishes

Spec == Init /\ [][Next]_vars

(***************************************************************************)
(* The loop with --max-priority, on batches with every dependency shape    *)
(* (none, self, mutual, on a later tier), under the assumption that the    *)
(* event loop keeps running: a future in flight completes and the sleep    *)
(* returns.                                                                *)
(***************************************************************************)
DepShapes == { <<{}, {}>>,          \* no dependency
               <<{}, {"a"}>>,       \* b after a
               <<{"b"}, {}>>,       \* a after b
               <<{"a"}, {}>>,       \* a depends on itself
               <<{"b"}, {"a"}>> }   \* a cycle

LiveBatches ==
    { <<Task("a", {"x"}, deps[1], pa), Task("b", fb, deps[2], pb)>> :
        deps \in DepShapes, fb \in {{"x"}, {"y"}},
        pa \in 1..NumTiers, pb \in 1..NumTiers }

\* with --max-workers at its default and --max-retries 0 or 1
InitLive ==
    /\ InitWith(LiveBatches, {NoPriority} \cup (1..NumTiers), {None})
    /\ NoExecution
    /\ max_workers = MaxWorkers
    /\ max_retries \in {0, 1}

SpecLive == InitLive /\ [][Next]_vars /\ WF_vars(Next)


(***************************************************************************)
(* OrchestratorState.status_dict (orchestrator.py): the snapshot that      *)
(* write_status serialises after every pass of the loop, as a function of  *)
(* the run state; the timing and cost entries are left out.                *)
(***************************************************************************)
\* variant: the tasks in their pipeline are not counted as done
Queued_IgnoreReviews ==
    Len(tasks) - Cardinality(completed_ids \cup failed_ids
                                 \cup Range(active_workers))

\* the property `queued`
Queued ==
    Len(tasks) - Cardinality(completed_ids \cup failed_ids
                                 \cup Range(active_workers)
                                 \cup Range(review_futures))

\* {**{tid: running ... for tid in self.active_workers},
\*  **{tid: reviewing ... for tid in self.review_futures}}: the second
\* mapping overrides the first
StatusWorkers ==
    [tid \in Range(active_workers) \cup Range(review_futures) |->
        [status |-> IF tid \in Range(review_futures)
                    THEN "reviewing" ELSE "running",
         retries |-> RetryCount(retry_counts, tid)]]

status_dict ==
    [tasks |-> [total |-> Len(tasks),
                queued |-> Queued,
                active |-> Len(active_workers),
                reviewing |-> Len(review_futures),
                completed |-> Cardinality(completed_ids),
                failed |-> Cardinality(failed_ids)],
     workers |-> StatusWorkers,
     current_priority |-> current_priority,
     retries |-> retry_counts]


(***************************************************************************)
(* The loop on tasks fetched from GitHub issues (--source issues), past    *)
(* the construction of the IssueSource: fetch_tasks drops dependencies on  *)
(* issues it did not fetch and returns the tasks sorted by priority.       *)
(***************************************************************************)
IssueBatches == {b \in LiveBatches : b[1].priority <= b[2].priority}

InitIssues ==
    InitWith(IssueBatches, {NoPriority}, {"IssueSource"}) /\ NoExecution

(***************************************************************************)
(* The loop with --architect, on a plan file or on fetched issues.  The    *)
(* enrichment runs in a thread of the pool; the control loop does not read *)
(* task.description, so the assignment is placed while the loop sleeps.    *)
(***************************************************************************)
InitArchitect ==
    /\ InitWith(IssueBatches, {NoPriority}, {None, "IssueSource"})
    /\ architect = TRUE
    /\ description = [t \in PlanIds |-> OriginalDescription]
    /\ enrich_calls = [t \in PlanIds |-> <<>>]
    /\ run = None
    /\ cleanup = None

Enrich ==
    /\ pc = "sleep"
    /\ \E t \in Range(active_workers), outcome \in EnrichOutcomes :
           /\ EnrichPending(t)
           /\ description' = [description EXCEPT ![t] =
                  enrich_task_with_architect(t, @, outcome)]
           /\ enrich_calls' = [enrich_calls EXCEPT ![t] = Append(@, outcome)]
    /\ UNCHANGED <<architect, run, cleanup>>
    /\ UNCHANGED <<pipeline, calls, issue_source, marks, data, plan>>
    /\ UNCHANGED <<tasks, max_workers, max_retries, max_priority,
                   priority_groups, sorted_priorities,
                   completed_ids, failed_ids, active_workers, worker_future,
                   review_futures, review_future, active_files, results,
                   retry_counts, current_priority_idx, current_priority,
                   done_ids, done_review_ids, ready, workers, pc>>

NextArchitect ==
    \/ Next
    \/ Enrich

SpecArchitect == InitArchitect /\ [][NextArchitect]_vars

SpecIssues == InitIssues /\ [][Next]_vars


(***************************************************************************)
(* get_ready_tasks as a function of its arguments: the arguments are drawn *)
(* from the batches above, with an optional third task, and every          *)
(* completed set and locked-file set.                                      *)
(***************************************************************************)
ReadyBatches ==
    Batches \cup
    { Append(b, Task("c", fc, dc, pr)) :
        b \in Batches, fc \in {{}, {"y"}}, dc \in {{}, {"a", "b"}},
        pr \in 1..NumTiers }

InitReady ==
    /\ tasks \in ReadyBatches
    /\ completed_ids \in SUBSET {t.id : t \in Range(tasks)}
    /\ active_files \in SUBSET Files
    /\ max_workers = 1
    /\ max_retries = 0
    /\ max_priority = NoPriority
    /\ priority_groups = <<>>
    /\ sorted_priorities = <<>>
    /\ failed_ids = {}
    /\ active_workers = <<>>
    /\ worker_future = [t \in TaskIds |-> "none"]
    /\ review_futures = <<>>
    /\ review_future = [t \in TaskIds |-> "none"]
    /\ results = [t \in TaskIds |-> <<>>]
    /\ retry_counts = <<>>
    /\ current_priority_idx = 0
    /\ current_priority = None
    /\ done_ids = <<>>
    /\ done_review_ids = <<>>
    /\ ready = <<>>
    /\ workers = [t \in TaskIds |-> <<>>]
    /\ pc = "call"
    /\ pipeline = None
    /\ calls = None
    /\ issue_source = None
    /\ marks = [t \in TaskIds |-> <<>>]
    /\ NoExecution
    /\ data = None
    /\ plan = None

CallGetReadyTasks ==
    /\ pc = "call"
    /\ ready' = get_ready_tasks(tasks, completed_ids, active_files)
    /\ pc' = "returned"
    /\ UNCHANGED <<pipeline, calls, issue_source, marks, data, plan, ExecVars>>
    /\ UNCHANGED <<tasks, max_workers, max_retries, max_priority,
                   priority_groups, sorted_priorities,
                   completed_ids, failed_ids, active_workers, worker_future,
                   review_futures, review_future, active_files, results,
                   retry_counts, current_priority_idx, current_priority,
                   done_ids, done_review_ids, workers>>

NextReady == CallGetReadyTasks

SpecReady == InitReady /\ [][NextReady]_vars

(***************************************************************************)
(* load_tasks (task_manager.py) as a function of the document that         *)
(* yaml.safe_load returned: a mapping with or without the key 'tasks',     *)
(* whose value is a list of entries.  An entry carries the keys the        *)
(* validation reads; files_touched and priority are left to their          *)
(* defaults.                                                               *)
(***************************************************************************)
MaxEntries == 3       \* a plan file lists at most MaxEntries entries


Entry(id, deps) == [id |-> id, depends_on |-> deps]

Entries ==
    { Entry(id, deps) :
        id \in PlanIds,
        deps \in {d \in SUBSET PlanIds : Cardinality(d) <= MaxDeps} }

Documents ==
    {[version |-> 1]}
    \cup {[tasks |-> raw_tasks] :
             raw_tasks \in UNION {[1..k -> Entries] : k \in 0..MaxEntries}}

\* `raise ValueError(...)` and `return tasks`
Raised(error) == [raised |-> TRUE, error |-> error, value |-> <<>>]
Returned(value) == [raised |-> FALSE, error |-> "", value |-> value]

\* Task(id=entry["id"], ..., files_touched=entry.get("files_touched", []),
\*      depends_on=entry.get("depends_on", []), priority=entry.get("priority", 1))
TaskOfEntry(entry) == Task(entry.id, {}, entry.depends_on, 1)

\* `for entry in raw_tasks:` with seen_ids and the list built so far
RECURSIVE ReadEntries(_, _, _)
ReadEntries(raw_tasks, seen_ids, built) ==
    IF raw_tasks = <<>> THEN Returned(built)
    ELSE LET entry == Head(raw_tasks)
         IN  IF entry.id \in seen_ids
             THEN Raised("Duplicate task ID")
             ELSE ReadEntries(Tail(raw_tasks), seen_ids \cup {entry.id},
                              Append(built, TaskOfEntry(entry)))

\* variant: the depends_on references are not validated
ValidateDeps_Skipped(built) == Returned(built)

\* "Validate depends_on references"
ValidateDeps(built) ==
    LET all_ids == {t.id : t \in Range(built)}
    IN  IF \E t \in Range(built) : \E dep \in t.depends_on : dep \notin all_ids
        THEN Raised("depends on a task which does not exist")
        ELSE Returned(built)

load_tasks(doc) ==
    IF "tasks" \notin DOMAIN doc \/ doc.tasks = <<>>
    THEN Raised("No 'tasks' key found")
    ELSE LET read == ReadEntries(doc.tasks, {}, <<>>)
         IN  IF read.raised THEN read ELSE ValidateDeps(read.value)

InitLoad ==
    /\ data \in Documents
    /\ tasks = <<>>
    /\ pc = "load"
    /\ max_workers = 1
    /\ max_retries = 0
    /\ max_priority = NoPriority
    /\ priority_groups = <<>>
    /\ sorted_priorities = <<>>
    /\ completed_ids = {}
    /\ failed_ids = {}
    /\ active_workers = <<>>
    /\ worker_future = [t \in TaskIds |-> "none"]
    /\ review_futures = <<>>
    /\ review_future = [t \in TaskIds |-> "none"]
    /\ active_files = {}
    /\ results = [t \in TaskIds |-> <<>>]
    /\ retry_counts = <<>>
    /\ current_priority_idx = 0
    /\ current_priority = None
    /\ done_ids = <<>>
    /\ done_review_ids = <<>>
    /\ ready = <<>>
    /\ workers = [t \in TaskIds |-> <<>>]
    /\ pipeline = None
    /\ calls = None
    /\ issue_source = None
    /\ marks = [t \in TaskIds |-> <<>>]
    /\ NoExecution
    /\ plan = None

\* tasks = load_tasks(plan_path): the name is bound when the call returns
CallLoadTasks ==
    /\ pc = "load"
    /\ LET outcome == load_tasks(data)
       IN  /\ tasks' = outcome.value
           /\ pc' = IF outcome.raised THEN "raised" ELSE "loaded"
    /\ UNCHANGED <<max_workers, max_retries, max_priority, priority_groups,
                   sorted_priorities, completed_ids, failed_ids,
                   active_workers, worker_future, review_futures,
                   review_future, active_files, results, retry_counts,
                   current_priority_idx, current_priority, done_ids,
                   done_review_ids, ready, workers, pipeline, calls,
                   issue_source, marks, data, plan, ExecVars>>

NextLoad == CallLoadTasks

SpecLoad == InitLoad /\ [][NextLoad]_vars


(***************************************************************************)
(* dry_run_plan (orchestrator.py): the simulation of execution waves.      *)
(* `plan` is the frame of the call; an action is one evaluation of         *)
(* `while remaining:` with the body that follows it.                       *)
(***************************************************************************)
DryDeps == {{}, {"a"}, {"b"}, {"c"}}

ExampleBatch ==
    <<Task("a", {"x"}, {}, 1), Task("b", {"x"}, {}, 1),
      Task("c", {"y"}, {"a"}, 2)>>

DryBatches ==
    { <<Task("a", fa, da, pa), Task("b", fb, db, pb),
        Task("c", fc, dc, pc_)>> :
        fa \in {{"x"}, {"y"}}, fb \in {{"x"}, {"y"}}, fc \in {{"x"}, {"y"}},
        da \in DryDeps, db \in DryDeps, dc \in DryDeps,
        pa \in 1..NumTiers, pb \in 1..NumTiers, pc_ \in 1..NumTiers }

\* variant: every remaining task counts as ready
DepsReady_IgnoreDeps(remaining, completed) == remaining

\* deps_ready = [t for t in remaining if all(dep in completed for dep in t.depends_on)]
DepsReady(remaining, completed) ==
    SelectSeq(remaining, LAMBDA t : t.depends_on \subseteq completed)

\* `for task in sorted(deps_ready, key=lambda t: t.priority):` with
\* wave_tasks and wave_files
RECURSIVE PickWave(_, _, _)
PickWave(candidates, wave_tasks, wave_files) ==
    IF candidates = <<>> THEN wave_tasks
    ELSE LET task == Head(candidates)
         IN  IF wave_files \cap task.files_touched = {}
             THEN PickWave(Tail(candidates), Append(wave_tasks, task),
                           wave_files \cup task.files_touched)
             ELSE PickWave(Tail(candidates), wave_tasks, wave_files)

\* variant: an iteration without a ready task goes round again
NoneReady_KeepLooping(frame) == frame

\* `if not deps_ready:` prints the warning and breaks
NoneReady(frame) ==
    [frame EXCEPT !.pc = "print",
                  !.warning = TRUE,
                  !.unscheduled = [i \in DOMAIN frame.remaining |->
                                      frame.remaining[i].id]]

InitDryRun ==
    /\ tasks \in DryBatches
    /\ max_workers = MaxWorkers
    /\ plan = [pc |-> "while", completed |-> {}, remaining |-> tasks,
               waves |-> <<>>, warning |-> FALSE, unscheduled |-> <<>>]
    /\ pc = "dry_run"
    /\ max_retries = 0
    /\ max_priority = NoPriority
    /\ priority_groups = <<>>
    /\ sorted_priorities = <<>>
    /\ completed_ids = {}
    /\ failed_ids = {}
    /\ active_workers = <<>>
    /\ worker_future = [t \in TaskIds |-> "none"]
    /\ review_futures = <<>>
    /\ review_future = [t \in TaskIds |-> "none"]
    /\ active_files = {}
    /\ results = [t \in TaskIds |-> <<>>]
    /\ retry_counts = <<>>
    /\ current_priority_idx = 0
    /\ current_priority = None
    /\ done_ids = <<>>
    /\ done_review_ids = <<>>
    /\ ready = <<>>
    /\ workers = [t \in TaskIds |-> <<>>]
    /\ pipeline = None
    /\ calls = None
    /\ issue_source = None
    /\ marks = [t \in TaskIds |-> <<>>]
    /\ NoExecution
    /\ data = None

DryRunUnchanged ==
    UNCHANGED <<tasks, max_workers, max_retries, max_priority,
                priority_groups, sorted_priorities, completed_ids,
                failed_ids, active_workers, worker_future, review_futures,
                review_future, active_files, results, retry_counts,
                current_priority_idx, current_priority, done_ids,
                done_review_ids, ready, workers, pipeline, calls,
                issue_source, marks, data, ExecVars>>

\* one evaluation of `while remaining:` and the body
DryRunWave ==
    /\ plan.pc = "while"
    /\ plan' =
         IF plan.remaining = <<>>
         THEN [plan EXCEPT !.pc = "print"]
         ELSE LET deps_ready == DepsReady(plan.remaining, plan.completed)
              IN  IF deps_ready = <<>>
                  THEN NoneReady(plan)
                  ELSE LET wave_tasks ==
                               PickWave(SortByPriority(deps_ready), <<>>, {})
                       IN  [plan EXCEPT
                               !.waves = Append(@, wave_tasks),
                               !.completed =
                                   @ \cup {t.id : t \in Range(wave_tasks)},
                               !.remaining =
                                   SelectSeq(@, LAMBDA t :
                                       t \notin Range(wave_tasks))]
    /\ pc' = pc
    /\ DryRunUnchanged

\* "Print waves", then `return`
DryRunPrint ==
    /\ plan.pc = "print"
    /\ plan' = [plan EXCEPT !.pc = "returned"]
    /\ pc' = "returned"
    /\ DryRunUnchanged

NextDryRun == DryRunWave \/ DryRunPrint

\* the call runs on the main thread, which is not suspended
SpecDryRun == InitDryRun /\ [][NextDryRun]_vars /\ WF_vars(NextDryRun)


(***************************************************************************)
(* The review / fix / merge pipeline: _review_fix_merge_sync runs in a     *)
(* worker thread for one pull request.  `pipeline` is its frame, an action *)
(* is one call of an external collaborator (reviewer, fixer, conflict      *)
(* resolver, gh, git) with the straight-line code up to the next call.     *)
(* `calls` records what the run has invoked.  The scheduler side is the    *)
(* control loop above, for a batch whose task "a" was handed to the        *)
(* pipeline and whose task "b" is settled.                                 *)
(***************************************************************************)
MAX_FIX_ATTEMPTS == 2
EXTRA_FIX_ATTEMPTS_BUFFER == 3
POST_RESOLVE_MERGEABILITY_MAX_RETRIES == 5
UnknownRetries == 3   \* `for _retry in range(3):`

MaxErrors == 3        \* a review has 0..MaxErrors error-severity comments
MaxLoopErrors == 5    \* the same, for the review/fix loop taken alone

NoCount == -1         \* prev_error_count = None
NotReturned == <<>>

Verdicts == {"approve", "request_changes"}

\* stdout of `gh pr view --json mergeable --jq .mergeable`, stripped
QueryOutputs == {"MERGEABLE", "CONFLICTING", "UNKNOWN", ""}
QueryOutcomes == QueryOutputs \cup {"exit_nonzero", "timeout"}

\* ReviewAgent._parse_review: the verdict of the ReviewResult, from the
\* evaluator's verdict and the number of error-severity comments
ParseReview(verdict, errors) ==
    IF verdict = "request_changes" /\ errors = 0 THEN "approve" ELSE verdict

\* `return False, error_msg` and `return True, ""`
Return(frame, ok, error_msg) ==
    [frame EXCEPT !.pc = "returned", !.ret = <<ok, error_msg>>]

\* variant: no handler at the boundary
Boundary_Propagates(frame, exc) == [frame EXCEPT !.pc = "raised"]

\* `except subprocess.TimeoutExpired` and `except Exception` around the loop
Boundary(frame, exc) ==
    IF exc = "timeout"
    THEN Return(frame, FALSE, "**Timeout** in review/fix/merge cycle")
    ELSE Return(frame, FALSE, "**Review step failed** (unexpected error)")

\* variant: the hard ceiling is not tested
GrantFix_NoCeiling(attempt, error_count, prev_error_count, max_fix_attempts, abs_max_fixes) ==
    LET making_progress ==
            prev_error_count # NoCount /\ error_count < prev_error_count
    IN  ~(attempt >= max_fix_attempts /\ ~making_progress)

\* variant: an equal error count counts as progress
GrantFix_NotStrict(attempt, error_count, prev_error_count, max_fix_attempts, abs_max_fixes) ==
    LET making_progress ==
            prev_error_count # NoCount /\ error_count <= prev_error_count
    IN  ~(attempt >= max_fix_attempts
          /\ (~making_progress \/ attempt >= abs_max_fixes))

\* the budget test on a request_changes verdict: TRUE when the fixer runs
GrantFix(attempt, error_count, prev_error_count, max_fix_attempts, abs_max_fixes) ==
    LET making_progress ==
            prev_error_count # NoCount /\ error_count < prev_error_count
    IN  ~(attempt >= max_fix_attempts
          /\ (~making_progress \/ attempt >= abs_max_fixes))

\* variant: a failed fix is followed by the next review round
AfterFix_IgnoreFailure(frame, outcome) ==
    [frame EXCEPT !.attempt = @ + 1, !.pc = "review"]

\* the code after fixer.fix(): a failure or an exception returns, a success
\* starts the next round of `for attempt in range(abs_max_fixes + 1)`
AfterFix(frame, outcome) ==
    IF outcome = "raise"
    THEN Return(frame, FALSE, "**Fix step failed** (exception)")
    ELSE IF outcome = "failed"
    THEN Return(frame, FALSE, "**Fix step failed**: FixAgent reported failure")
    ELSE IF frame.attempt + 1
              < frame.max_fix_attempts + frame.extra_attempts_buffer + 1
    THEN [frame EXCEPT !.attempt = @ + 1, !.pc = "review"]
    ELSE Return(frame, FALSE, "**Review/fix/merge cycle exhausted**")

\* variant: every status other than CONFLICTING goes on to the merge
Route_MergeAnyway(frame) ==
    LET mergeable == IF frame.mergeable = "UNKNOWN"
                     THEN "CONFLICTING" ELSE frame.mergeable
    IN  IF mergeable = "CONFLICTING"
        THEN [frame EXCEPT !.mergeable = mergeable, !.i = 0, !.pc = "resolve"]
        ELSE [frame EXCEPT !.i = 0, !.pc = "merge"]

\* after the UNKNOWN retries: `if mergeable == "UNKNOWN"`,
\* `if mergeable == "CONFLICTING"` ... `elif mergeable != "MERGEABLE"`
Route(frame) ==
    LET mergeable == IF frame.mergeable = "UNKNOWN"
                     THEN "CONFLICTING" ELSE frame.mergeable
    IN  IF mergeable = "CONFLICTING"
        THEN [frame EXCEPT !.mergeable = mergeable, !.i = 0, !.pc = "resolve"]
        ELSE IF mergeable # "MERGEABLE"
        THEN Return([frame EXCEPT !.i = 0], FALSE,
                    "**Merge step failed**: PR is not mergeable")
        ELSE [frame EXCEPT !.i = 0, !.pc = "merge"]

\* variant: a failed resolution is followed by the readiness polls
AfterResolve_IgnoreFailure(frame, outcome) ==
    IF outcome = "raise"
    THEN Boundary(frame, "exception")
    ELSE [frame EXCEPT !.mergeable = "UNKNOWN", !.i = 0, !.pc = "post_resolve"]

\* the code after resolver.resolve()
AfterResolve(frame, outcome) ==
    IF outcome = "raise"
    THEN Boundary(frame, "exception")
    ELSE IF outcome = "resolved"
    THEN [frame EXCEPT !.mergeable = "UNKNOWN", !.i = 0, !.pc = "post_resolve"]
    ELSE Return(frame, FALSE, "**Merge step failed**: Conflict resolution failed")

\* the code after `git pull`: its exit code is only logged, its timeout
\* reaches the handler around the loop
AfterPull(frame, outcome) ==
    IF outcome = "timeout"
    THEN Boundary(frame, "timeout")
    ELSE [frame EXCEPT !.pc = "followup"]

\* the record of one more call of a collaborator, with how it ended
Called(call, outcome) == [calls EXCEPT ![call] = @ + 1,
                                       !.last = <<call, outcome>>]

\* the frame of a call that has not started, and the empty record of calls
NewFrame(max_fix_attempts, extra_attempts_buffer) ==
    [pc |-> "submit",
     max_fix_attempts |-> max_fix_attempts,
     extra_attempts_buffer |-> extra_attempts_buffer,
     attempt |-> 0,
     prev_error_count |-> NoCount,
     review |-> [verdict |-> "", errors |-> 0],
     mergeable |-> "",
     i |-> 0,
     ret |-> NotReturned]

NoCalls ==
    [reviewer |-> 0, fixer |-> 0, query |-> 0, requery |-> 0,
     resolver |-> 0, poll |-> 0, merge |-> 0, pull |-> 0,
     followup |-> 0,
     last |-> <<"", "">>,
     evaluator |-> "",
     error_counts |-> <<>>]

\* variant: the message counts the review rounds
NotApprovedAfter_Rounds(attempt) ==
    << "**Review step failed**: PR was not approved after 1 fix attempt(s)",
       "**Review step failed**: PR was not approved after 2 fix attempt(s)",
       "**Review step failed**: PR was not approved after 3 fix attempt(s)",
       "**Review step failed**: PR was not approved after 4 fix attempt(s)",
       "**Review step failed**: PR was not approved after 5 fix attempt(s)",
       "**Review step failed**: PR was not approved after 6 fix attempt(s)"
    >>[attempt + 1]

\* f"PR was not approved after {attempt} fix attempt(s)"
NotApprovedAfter(attempt) ==
    << "**Review step failed**: PR was not approved after 0 fix attempt(s)",
       "**Review step failed**: PR was not approved after 1 fix attempt(s)",
       "**Review step failed**: PR was not approved after 2 fix attempt(s)",
       "**Review step failed**: PR was not approved after 3 fix attempt(s)",
       "**Review step failed**: PR was not approved after 4 fix attempt(s)",
       "**Review step failed**: PR was not approved after 5 fix attempt(s)"
    >>[attempt + 1]

PipelineBatch == <<Task("a", {"x"}, {}, 1), Task("b", {"y"}, {}, 1)>>

InitPipeline ==
    /\ tasks = PipelineBatch
    /\ max_workers = 1
    /\ max_retries = 0
    /\ max_priority = NoPriority
    /\ priority_groups = PriorityGroups(tasks)
    /\ sorted_priorities = SortedSeq(DOMAIN priority_groups)
    /\ completed_ids = {"b"}
    /\ failed_ids = {}
    /\ active_workers = <<>>
    /\ worker_future = [t \in TaskIds |-> "none"]
    /\ review_futures = <<"a">>
    /\ review_future = [t \in TaskIds |-> IF t = "a" THEN "pending" ELSE "none"]
    /\ active_files = {}
    /\ workers = [t \in TaskIds |-> <<run_worker(TaskById(t), NoSuffix)>>]
    /\ results = [t \in TaskIds |-> <<WorkerResult(TaskById(t), "ok_pr")>>]
    /\ retry_counts = <<>>
    /\ current_priority_idx = 0
    /\ current_priority = sorted_priorities[1]
    /\ done_ids = <<>>
    /\ done_review_ids = <<>>
    /\ ready = <<>>
    /\ pc = "sleep"
    /\ \E max_fix_attempts \in 0..MAX_FIX_ATTEMPTS,
          extra_attempts_buffer \in 0..EXTRA_FIX_ATTEMPTS_BUFFER :
           pipeline = NewFrame(max_fix_attempts, extra_attempts_buffer)
    /\ calls = NoCalls
    /\ issue_source = None
    /\ marks = [t \in TaskIds |-> <<>>]
    /\ NoExecution
    /\ data = None
    /\ plan = None

IssueVars == <<issue_source, marks>>
PlanVars == <<data, plan, ExecVars>>

SchedulerVars == <<tasks, max_workers, max_retries, max_priority,
                   priority_groups, sorted_priorities, completed_ids,
                   failed_ids, active_workers, worker_future, review_futures,
                   active_files, results, retry_counts, current_priority_idx,
                   current_priority, done_ids, done_review_ids, ready,
                   workers, pc>>

\* run_review_fix_merge: loop.run_in_executor hands the call to the thread
\* pool, which starts it or refuses it (the awaiting future then raises)
Submit ==
    /\ pipeline.pc = "submit"
    /\ pc = "sleep"
    /\ review_future["a"] = "pending"
    /\ \E accepted \in BOOLEAN :
           IF accepted
           THEN /\ pipeline' = [pipeline EXCEPT !.pc = "review"]
                /\ UNCHANGED review_future
           ELSE /\ pipeline' = [pipeline EXCEPT !.pc = "refused"]
                /\ review_future' = [review_future EXCEPT !["a"] = "raise"]
    /\ UNCHANGED calls
    /\ UNCHANGED <<SchedulerVars, IssueVars, PlanVars, ExecVars>>

\* One round of the loop up to the fixer: reviewer.review(), the counts, the
\* approve branch entered or the budget test on request_changes
ReviewRound(max_errors) ==
    /\ pipeline.pc = "review"
    /\ \E raises \in BOOLEAN, evaluator \in Verdicts, errors \in 0..max_errors :
           IF raises
           THEN /\ evaluator = "approve" /\ errors = 0
                /\ pipeline' = Return(pipeline, FALSE, "**Review step failed**")
                /\ calls' = Called("reviewer", "raise")
           ELSE LET review == [verdict |-> ParseReview(evaluator, errors),
                               errors |-> errors]
                    error_count == review.errors
                    frame == [pipeline EXCEPT !.review = review]
                    abs_max_fixes == pipeline.max_fix_attempts
                                         + pipeline.extra_attempts_buffer
                IN  /\ calls' = [Called("reviewer", "ok") EXCEPT
                                    !.evaluator = evaluator,
                                    !.error_counts = Append(@, error_count)]
                    /\ pipeline' =
                         IF review.verdict = "approve"
                         THEN [frame EXCEPT !.pc = "mergeable"]
                         ELSE IF GrantFix(pipeline.attempt, error_count,
                                          pipeline.prev_error_count,
                                          pipeline.max_fix_attempts,
                                          abs_max_fixes)
                         THEN [frame EXCEPT !.prev_error_count = error_count,
                                            !.pc = "fix"]
                         ELSE Return(frame, FALSE,
                                     NotApprovedAfter(pipeline.attempt))
    /\ UNCHANGED review_future
    /\ UNCHANGED <<SchedulerVars, IssueVars, PlanVars, ExecVars>>

Review == ReviewRound(MaxErrors)

\* fixer.fix() and the code after it
Fix ==
    /\ pipeline.pc = "fix"
    /\ \E outcome \in {"fixed", "failed", "raise"} :
           /\ pipeline' = AfterFix(pipeline, outcome)
           /\ calls' = Called("fixer", outcome)
    /\ UNCHANGED review_future
    /\ UNCHANGED <<SchedulerVars, IssueVars, PlanVars, ExecVars>>

\* the first mergeability query after an approve verdict
QueryMergeable ==
    /\ pipeline.pc = "mergeable"
    /\ \E out \in QueryOutcomes :
           /\ calls' = Called("query", out)
           /\ pipeline' =
                IF out = "timeout"
                THEN Boundary(pipeline, "timeout")
                ELSE IF out = "exit_nonzero"
                THEN Return(pipeline, FALSE,
                            "**Merge step failed**: gh command failed")
                ELSE IF out = "UNKNOWN" /\ UnknownRetries > 0
                THEN [pipeline EXCEPT !.mergeable = out, !.i = 0,
                                      !.pc = "unknown_retry"]
                ELSE Route([pipeline EXCEPT !.mergeable = out])
    /\ UNCHANGED review_future
    /\ UNCHANGED <<SchedulerVars, IssueVars, PlanVars, ExecVars>>

\* one pass of `for _retry in range(3):` with mergeable == "UNKNOWN"
RetryUnknown ==
    /\ pipeline.pc = "unknown_retry"
    /\ \E out \in QueryOutcomes :
           /\ calls' = Called("requery", out)
           /\ pipeline' =
                IF out = "timeout"
                THEN Boundary(pipeline, "timeout")
                ELSE IF out \in {"exit_nonzero", ""}
                THEN Route(pipeline)
                ELSE IF out = "UNKNOWN" /\ pipeline.i + 1 < UnknownRetries
                THEN [pipeline EXCEPT !.i = @ + 1]
                ELSE Route([pipeline EXCEPT !.mergeable = out])
    /\ UNCHANGED review_future
    /\ UNCHANGED <<SchedulerVars, IssueVars, PlanVars, ExecVars>>

\* resolver.resolve() on a CONFLICTING pull request
Resolve ==
    /\ pipeline.pc = "resolve"
    /\ \E outcome \in {"resolved", "failed", "raise"} :
           /\ calls' = Called("resolver", outcome)
           /\ pipeline' = AfterResolve(pipeline, outcome)
    /\ UNCHANGED review_future
    /\ UNCHANGED <<SchedulerVars, IssueVars, PlanVars, ExecVars>>

\* one pass of `for _post_attempt in range(POST_RESOLVE_MERGEABILITY_MAX_RETRIES):`
\* and, after the last, `if mergeable != "MERGEABLE"`
PollAfterResolve ==
    /\ pipeline.pc = "post_resolve"
    /\ \E out \in QueryOutcomes :
           /\ calls' = Called("poll", out)
           /\ pipeline' =
                IF out = "timeout"
                THEN Boundary(pipeline, "timeout")
                ELSE IF out = "exit_nonzero"
                THEN Return(pipeline, FALSE,
                       "**Merge step failed**: gh command failed after conflict resolution")
                ELSE IF out = "UNKNOWN"
                        /\ pipeline.i + 1 < POST_RESOLVE_MERGEABILITY_MAX_RETRIES
                THEN [pipeline EXCEPT !.mergeable = out, !.i = @ + 1]
                ELSE IF out # "MERGEABLE"
                THEN Return([pipeline EXCEPT !.mergeable = out, !.i = 0], FALSE,
                       "**Merge step failed**: PR is not mergeable after conflict resolution")
                ELSE [pipeline EXCEPT !.mergeable = out, !.i = 0,
                                      !.pc = "merge"]
    /\ UNCHANGED review_future
    /\ UNCHANGED <<SchedulerVars, IssueVars, PlanVars, ExecVars>>

\* `gh pr merge --squash --delete-branch`
Merge ==
    /\ pipeline.pc = "merge"
    /\ \E outcome \in {"ok", "exit_nonzero", "timeout"} :
           /\ calls' = Called("merge", outcome)
           /\ pipeline' =
                IF outcome = "timeout"
                THEN Boundary(pipeline, "timeout")
                ELSE IF outcome = "exit_nonzero"
                THEN Return(pipeline, FALSE,
                            "**Merge step failed**: gh pr merge exited with code 1")
                ELSE [pipeline EXCEPT !.pc = "pull"]
    /\ UNCHANGED review_future
    /\ UNCHANGED <<SchedulerVars, IssueVars, PlanVars, ExecVars>>

\* `git pull` after the merge
Pull ==
    /\ pipeline.pc = "pull"
    /\ \E outcome \in {"ok", "exit_nonzero", "timeout"} :
           /\ calls' = Called("pull", outcome)
           /\ pipeline' = AfterPull(pipeline, outcome)
    /\ UNCHANGED review_future
    /\ UNCHANGED <<SchedulerVars, IssueVars, PlanVars, ExecVars>>

\* the follow-up issues and the summary comment, inside their own
\* `try: ... except Exception`, then `return True, ""`
FollowUp ==
    /\ pipeline.pc = "followup"
    /\ \E outcome \in {"ok", "exit_nonzero", "raise", "timeout"} :
           /\ calls' = Called("followup", outcome)
           /\ pipeline' = Return(pipeline, TRUE, "")
    /\ UNCHANGED review_future
    /\ UNCHANGED <<SchedulerVars, IssueVars, PlanVars, ExecVars>>

\* the executor future of the call completes with the returned pair, or
\* with the exception that left the function
FutureDone ==
    /\ pipeline.pc \in {"returned", "raised"}
    /\ pc = "sleep"
    /\ review_future["a"] = "pending"
    /\ review_future' = [review_future EXCEPT !["a"] =
           IF pipeline.pc = "raised" THEN "raise"
           ELSE IF pipeline.ret[1] THEN "landed" ELSE "failed"]
    /\ UNCHANGED <<pipeline, calls>>
    /\ UNCHANGED <<SchedulerVars, IssueVars, PlanVars, ExecVars>>

NextPipeline ==
    \/ Submit
    \/ Review
    \/ Fix
    \/ QueryMergeable
    \/ RetryUnknown
    \/ Resolve
    \/ PollAfterResolve
    \/ Merge
    \/ Pull
    \/ FollowUp
    \/ FutureDone
    \/ PollWorkers

SpecPipeline == InitPipeline /\ [][NextPipeline]_vars

(***************************************************************************)
(* One task from the first tick of the control loop to its exit: the        *)
(* scheduler above with the pipeline it launches for the task's pull        *)
(* request, run with the default --max-fix-attempts.  With a single task    *)
(* the snapshot lists done_ids and done_review_ids have at most one entry,  *)
(* so the `for` loops over them have no second pass.                        *)
(***************************************************************************)
MaxRunErrors == 1     \* a review of this run has 0..MaxRunErrors errors

SingleTask == <<Task("a", {}, {}, 1)>>

InitRun ==
    /\ tasks = SingleTask
    /\ max_workers = 1
    /\ max_retries \in {0, 1}
    /\ max_priority = NoPriority
    /\ priority_groups = PriorityGroups(tasks)
    /\ sorted_priorities = SortedSeq(DOMAIN priority_groups)
    /\ completed_ids = {}
    /\ failed_ids = {}
    /\ active_workers = <<>>
    /\ worker_future = [t \in TaskIds |-> "none"]
    /\ review_futures = <<>>
    /\ review_future = [t \in TaskIds |-> "none"]
    /\ active_files = {}
    /\ results = [t \in TaskIds |-> <<>>]
    /\ retry_counts = <<>>
    /\ current_priority_idx = 0
    /\ current_priority = sorted_priorities[1]
    /\ done_ids = <<>>
    /\ done_review_ids = <<>>
    /\ ready = <<>>
    /\ workers = [t \in TaskIds |-> <<>>]
    /\ pc = "top"
    /\ pipeline = NewFrame(MAX_FIX_ATTEMPTS, EXTRA_FIX_ATTEMPTS_BUFFER)
    /\ calls = NoCalls
    /\ issue_source = None
    /\ marks = [t \in TaskIds |-> <<>>]
    /\ NoExecution
    /\ data = None
    /\ plan = None

ReviewRun == ReviewRound(MaxRunErrors)

NextRun ==
    \/ PollWorkers
    \/ Dispatch
    \/ WorkerFinishes
    \/ Submit
    \/ ReviewRun
    \/ Fix
    \/ QueryMergeable
    \/ RetryUnknown
    \/ Resolve
    \/ PollAfterResolve
    \/ Merge
    \/ Pull
    \/ FollowUp
    \/ FutureDone

\* the event loop and the thread pool keep running
SpecRun == InitRun /\ [][NextRun]_vars /\ WF_vars(NextRun)


(***************************************************************************)
(* The review/fix loop of the pipeline taken alone, up to the approve      *)
(* verdict or the return, with reviews of up to MaxLoopErrors errors.      *)
(***************************************************************************)
ReviewLoop == ReviewRound(MaxLoopErrors)

NextLoop ==
    \/ Submit
    \/ ReviewLoop
    \/ Fix

SpecLoop == InitPipeline /\ [][NextLoop]_vars



(***************************************************************************)
(* The loop on a plan of three tasks: two of the first tier and a third    *)
(* of either tier, so that a task can wait for a slot while a tier above   *)
(* its own exists.                                                         *)
(***************************************************************************)
TierBatches ==
    { << Task("a", {"x"}, {}, 1), Task("b", fb, {}, 1),
         Task("c", fc, dc, pc_) >> :
        fb \in {{"x"}, {"y"}}, fc \in {{"x"}, {"y"}},
        dc \in {{}, {"a"}}, pc_ \in 1..NumTiers }

InitTiers ==
    /\ tasks \in TierBatches
    /\ max_workers \in {1, MaxWorkers}
    /\ max_retries \in {0, 1}
    /\ max_priority = NoPriority
    /\ priority_groups = PriorityGroups(tasks)
    /\ sorted_priorities = SortedSeq(DOMAIN priority_groups)
    /\ completed_ids = {}
    /\ failed_ids = {}
    /\ active_workers = <<>>
    /\ worker_future = [t \in PlanIds |-> "none"]
    /\ review_futures = <<>>
    /\ review_future = [t \in PlanIds |-> "none"]
    /\ active_files = {}
    /\ results = [t \in PlanIds |-> <<>>]
    /\ retry_counts = <<>>
    /\ current_priority_idx = 0
    /\ current_priority = sorted_priorities[1]
    /\ done_ids = <<>>
    /\ done_review_ids = <<>>
    /\ ready = <<>>
    /\ workers = [t \in PlanIds |-> <<>>]
    /\ pc = "top"
    /\ pipeline = None
    /\ calls = None
    /\ issue_source = None
    /\ marks = [t \in PlanIds |-> <<>>]
    /\ NoExecution
    /\ data = None
    /\ plan = None

SpecTiers == InitTiers /\ [][Next]_vars

(***************************************************************************)
(* Worker.run (worker.py): one execution attempt, in a thread of the pool. *)
(* Every subprocess the steps start either answers or, where the call has  *)
(* a timeout, exceeds it.                                                  *)
(***************************************************************************)
NoPrNumber == -1      \* WorkerResult.pr_number = None
PR_NUMBER == 7        \* the number at the end of the URL `gh pr create` prints

\* delays = [5, 15, 45] of _push and of _try_create_pr
PushDelays == <<5, 15, 45>>
CreateDelays == <<5, 15, 45>>

\* result = WorkerResult(task_id, branch, success=False, started_at)
NewRun ==
    [pc |-> "setup", steps |-> <<>>, success |-> FALSE, error |-> "",
     pr_number |-> NoPrNumber, label |-> "agent-created", attempt |-> 1,
     pushes |-> 0, creates |-> <<>>]

\* variant: the exception leaves run without passing the finally block
Except_Propagates(frame, step, message) ==
    [frame EXCEPT !.pc = "raised", !.steps = Append(@, step)]

\* `except Exception as e: result.error = str(e)`, then the finally block
Except(frame, step, message) ==
    [frame EXCEPT !.pc = "cleanup", !.steps = Append(@, step),
                  !.error = message]

\* a step that returned: the next statement of the try block
Ran(frame, step, next) ==
    [frame EXCEPT !.pc = next, !.steps = Append(@, step)]

InitWorker ==
    /\ InitWith({<<Task("a", {"x"}, {}, 1)>>}, {NoPriority}, {None})
    /\ max_workers = 1
    /\ max_retries = 0
    /\ architect = FALSE
    /\ description = [t \in PlanIds |-> OriginalDescription]
    /\ enrich_calls = [t \in PlanIds |-> <<>>]
    /\ run = NewRun
    /\ cleanup = None

WorkerUnchanged ==
    UNCHANGED <<tasks, max_workers, max_retries, max_priority,
                priority_groups, sorted_priorities, completed_ids,
                failed_ids, active_workers, worker_future, review_futures,
                review_future, active_files, results, retry_counts,
                current_priority_idx, current_priority, done_ids,
                done_review_ids, ready, workers, pc, pipeline, calls,
                issue_source, marks, data, plan, architect, description,
                enrich_calls, cleanup>>

\* self._setup_worktree(): `git pull` may exceed its timeout, _run_git
\* raises WorkerError on a non-zero exit or a timeout
SetupWorktree ==
    /\ run.pc = "setup"
    /\ \E outcome \in {"ok", "pull_timeout", "failed"} :
          run' = IF outcome = "ok" THEN Ran(run, "setup", "agent")
                 ELSE IF outcome = "pull_timeout"
                 THEN Except(run, "setup", "Command timed out after 120 seconds")
                 ELSE Except(run, "setup", "git worktree add failed")
    /\ WorkerUnchanged

\* claude_output, parsed = self._run_claude()
RunClaude ==
    /\ run.pc = "agent"
    /\ \E outcome \in {"ok", "timeout", "exit"} :
          run' = IF outcome = "ok" THEN Ran(run, "agent", "scope")
                 ELSE IF outcome = "timeout"
                 THEN Except(run, "agent", "Claude timed out")
                 ELSE Except(run, "agent", "Claude exited with code 1")
    /\ WorkerUnchanged

\* self._enforce_file_scope(): its git calls have timeout=60 and no handler
EnforceFileScope ==
    /\ run.pc = "scope"
    /\ \E outcome \in {"ok", "timeout"} :
          run' = IF outcome = "ok" THEN Ran(run, "scope", "verify")
                 ELSE Except(run, "scope", "Command timed out after 60 seconds")
    /\ WorkerUnchanged

\* result.files_changed = self._verify_changes()
VerifyChanges ==
    /\ run.pc = "verify"
    /\ \E outcome \in {"ok", "commit_failed", "no_commits"} :
          run' = IF outcome = "ok" THEN Ran(run, "verify", "rebase")
                 ELSE IF outcome = "commit_failed"
                 THEN Except(run, "verify", "Auto-commit failed")
                 ELSE Except(run, "verify", "No commits ahead of main")
    /\ WorkerUnchanged

\* self._rebase_before_push(): every failure inside is logged and the
\* method returns
RebaseBeforePush ==
    /\ run.pc = "rebase"
    /\ run' = [Ran(run, "rebase", "push") EXCEPT !.attempt = 1]
    /\ WorkerUnchanged

\* one pass of `for attempt, delay in enumerate(delays, start=1):` of _push
Push ==
    /\ run.pc = "push"
    /\ \E outcome \in {"ok", "failed"} :
          LET pushed == [run EXCEPT !.pushes = @ + 1]
          IN  run' = IF outcome = "ok"
                     THEN [Ran(pushed, "push", "create_pr")
                               EXCEPT !.attempt = 1]
                     ELSE IF run.attempt < Len(PushDelays)
                     THEN [pushed EXCEPT !.attempt = @ + 1]
                     ELSE Except(pushed, "push",
                                 "git push failed after 3 attempts")
    /\ WorkerUnchanged

\* what _create_pr does with the value _try_create_pr returned
AfterTryCreate(frame, pr_url) ==
    IF pr_url # None
    THEN [Ran(frame, "create_pr", "cleanup")
              EXCEPT !.pr_number = PR_NUMBER, !.success = TRUE]
    ELSE IF frame.label = "agent-created"
    THEN [frame EXCEPT !.label = None, !.attempt = 1]
    ELSE Except(frame, "create_pr", "Failed to create PR")

\* the answers of `gh pr create`: exit 0 with the URL, "could not find
\* label", "already exists", or another error
CreateOutcomes == {"ok", "no_label", "exists", "transient"}

\* one pass of the loop of _try_create_pr, and its return to _create_pr
TryCreatePr ==
    /\ run.pc = "create_pr"
    /\ \E outcome \in CreateOutcomes :
          LET called == [run EXCEPT !.creates =
                                        Append(@, <<run.label, outcome>>)]
          IN  run' =
                IF outcome = "ok" THEN AfterTryCreate(called, "pr_url")
                ELSE IF run.label # None /\ outcome = "no_label"
                THEN AfterTryCreate(called, None)
                ELSE IF outcome = "exists"
                THEN AfterTryCreate(called, None)
                ELSE IF run.attempt < Len(CreateDelays)
                THEN [called EXCEPT !.attempt = @ + 1]
                ELSE AfterTryCreate(called, None)
    /\ WorkerUnchanged

\* finally: self._cleanup(), which catches the WorkerError of the removal
Cleanup ==
    /\ run.pc = "cleanup"
    /\ \E outcome \in {"removed", "failed"} :
          run' = [run EXCEPT !.pc = "save_log", !.steps = Append(@, "cleanup")]
    /\ WorkerUnchanged

\* finally: self._save_log(result), whose mkdir and write_text may raise
SaveLog ==
    /\ run.pc = "save_log"
    /\ \E outcome \in {"written", "raise"} :
          run' = [run EXCEPT !.pc = IF outcome = "written"
                                    THEN "returned" ELSE "raised",
                             !.steps = Append(@, "save_log")]
    /\ WorkerUnchanged

NextWorker ==
    \/ SetupWorktree
    \/ RunClaude
    \/ EnforceFileScope
    \/ VerifyChanges
    \/ RebaseBeforePush
    \/ Push
    \/ TryCreatePr
    \/ Cleanup
    \/ SaveLog

SpecWorker == InitWorker /\ [][NextWorker]_vars

(***************************************************************************)
(* _cleanup_failed_branch(repo_path, branch) (orchestrator.py), called by  *)
(* the worker-future handler with the branch of the failed attempt.  Both  *)
(* subprocess.run calls have timeout=120 and no exception handler.         *)
(***************************************************************************)
DeletionOutcomes == {"zero", "nonzero", "timeout"}

InitCleanup ==
    /\ InitWith(Batches, {NoPriority}, {None})
    /\ max_workers = 1
    /\ max_retries = MaxRetries
    /\ architect = FALSE
    /\ description = [t \in PlanIds |-> OriginalDescription]
    /\ enrich_calls = [t \in PlanIds |-> <<>>]
    /\ run = None
    /\ \E i \in DOMAIN tasks,
          suffix \in {NoSuffix} \cup {RetrySuffix(n) : n \in 1..MaxRetries} :
          cleanup = [pc |-> "remote",
                     branch |-> run_worker(tasks[i], suffix).branch,
                     calls |-> <<>>, warnings |-> 0]

CleanupUnchanged ==
    UNCHANGED <<tasks, max_workers, max_retries, max_priority,
                priority_groups, sorted_priorities, completed_ids,
                failed_ids, active_workers, worker_future, review_futures,
                review_future, active_files, results, retry_counts,
                current_priority_idx, current_priority, done_ids,
                done_review_ids, ready, workers, pc, pipeline, calls,
                issue_source, marks, data, plan, architect, description,
                enrich_calls, run>>

\* one subprocess.run and the `if ... returncode != 0: log.warning` after it
Deletion(frame, command, outcome, next) ==
    [frame EXCEPT !.calls = Append(@, <<command, outcome>>),
                  !.warnings = IF outcome = "nonzero" THEN @ + 1 ELSE @,
                  !.pc = IF outcome = "timeout" THEN "raised" ELSE next]

\* git push origin --delete <branch>
DeleteRemote ==
    /\ cleanup.pc = "remote"
    /\ \E outcome \in DeletionOutcomes :
          cleanup' = Deletion(cleanup, "push --delete", outcome, "local")
    /\ CleanupUnchanged

\* git branch -D <branch>
DeleteLocal ==
    /\ cleanup.pc = "local"
    /\ \E outcome \in DeletionOutcomes :
          cleanup' = Deletion(cleanup, "branch -D", outcome, "returned")
    /\ CleanupUnchanged

NextCleanup ==
    \/ DeleteRemote
    \/ DeleteLocal

SpecCleanup == InitCleanup /\ [][NextCleanup]_vars

(***************************************************************************)
(* Properties                                                              *)
(***************************************************************************)
InFlight == Range(active_workers)
InPipeline == Range(review_futures)
Settled == completed_ids \cup failed_ids
FilesOf(id) == TaskById(id).files_touched
Last(s) == s[Len(s)]

\* a Worker is constructed for task t in this step (dispatch or relaunch)
Launched(t) == Len(workers'[t]) > Len(workers[t])

\* C1: no two distinct tasks with in-flight executions share a file of
\* their files_touched sets.
C1_DisjointInFlight ==
    \A t, u \in InFlight : t # u => FilesOf(t) \cap FilesOf(u) = {}

\* C2: after every step of the control loop the locked-file set is exactly
\* the union of files_touched over the tasks with in-flight executions.
C2_LockedFilesExact ==
    active_files = UNION {FilesOf(t) : t \in InFlight}

\* C3: every task id is in at most one of active_workers, review_futures,
\* completed_ids and failed_ids.
C3_AtMostOneCollection ==
    /\ InFlight \cap InPipeline = {}
    /\ InFlight \cap completed_ids = {}
    /\ InFlight \cap failed_ids = {}
    /\ InPipeline \cap completed_ids = {}
    /\ InPipeline \cap failed_ids = {}
    /\ completed_ids \cap failed_ids = {}

C3_Witness ==
    /\ InPipeline # {}
    /\ completed_ids # {}
    /\ \E t \in TaskIds : t \in DOMAIN retry_counts /\ t \in InPipeline

\* C4: completed_ids and failed_ids are disjoint and only grow, and a task
\* in either of them is never dispatched or relaunched again.
C4_SettledIsFinal ==
    /\ [](completed_ids \cap failed_ids = {})
    /\ [][/\ completed_ids \subseteq completed_ids'
          /\ failed_ids \subseteq failed_ids'
          /\ \A t \in Settled : ~Launched(t) /\ t \notin Range(active_workers')
       ]_vars

\* a failed task that get_ready_tasks still returns, at a point where the
\* loop is about to spawn the tasks it selected
C4_Witness ==
    /\ pc = "dispatch"
    /\ \E t \in failed_ids :
          /\ TaskById(t) \in Range(get_ready_tasks(tasks, completed_ids,
                                                   active_files))
          /\ TaskById(t).priority = current_priority

\* C5: a task is dispatched only when every task of a strictly smaller
\* priority is settled and not in flight; the tier pointer moves forward
\* only, one tier at a time, and only when the tier it leaves is settled
\* with nothing in flight.
C5_StrictTiers ==
    [][/\ \A t \in TaskIds : Launched(t) =>
              \A u \in TaskIds :
                  TaskById(u).priority < TaskById(t).priority =>
                      /\ u \in Settled
                      /\ u \notin InFlight \cup InPipeline
       /\ current_priority_idx' # current_priority_idx =>
              /\ current_priority_idx' = current_priority_idx + 1
              /\ \A u \in TaskIds :
                     TaskById(u).priority
                         = sorted_priorities[current_priority_idx + 1] =>
                         /\ u \in completed_ids' \cup failed_ids'
                         /\ u \notin Range(active_workers')
                                       \cup Range(review_futures')
      ]_vars

\* a task of the second tier runs after the first tier settled
C5_Witness ==
    /\ current_priority_idx = 1
    /\ \E t \in InFlight : TaskById(t).priority = sorted_priorities[2]

\* C6: the number of in-flight executions never exceeds max_workers,
\* retry relaunches included.
C6_WorkerBound == Len(active_workers) <= max_workers

\* every slot is taken, one of them by a retry, and an eligible task of the
\* current tier is left waiting
C6_Witness ==
    /\ Len(active_workers) = max_workers
    /\ \E t \in InFlight : RetryCount(retry_counts, t) >= 1
    /\ \E t \in TaskIds :
          /\ t \notin InFlight \cup InPipeline \cup Settled
          /\ TaskById(t).priority = current_priority
          /\ IsReady(TaskById(t), completed_ids, {})


\* position of the task with this id in the input list
IndexOf(ts, id) == CHOOSE i \in DOMAIN ts : ts[i].id = id

\* C7: get_ready_tasks returns exactly the tasks that are not completed,
\* whose dependencies are all completed and whose files are disjoint from
\* the locked files, each once, by ascending priority with ties in input
\* order, and leaves its arguments unchanged.
C7_ReadyTasksContract ==
    [][pc = "call" /\ pc' = "returned" =>
        /\ Range(ready') =
              {t \in Range(tasks) :
                  /\ t.id \notin completed_ids
                  /\ t.depends_on \subseteq completed_ids
                  /\ \A f \in t.files_touched : f \notin active_files}
        /\ \A i, j \in DOMAIN ready' : i < j =>
              /\ ready'[i] # ready'[j]
              /\ ready'[i].priority <= ready'[j].priority
              /\ ready'[i].priority = ready'[j].priority =>
                     IndexOf(tasks, ready'[i].id) < IndexOf(tasks, ready'[j].id)
        /\ \A t \in Range(tasks) :
              (t.files_touched = {} /\ t.id \notin completed_ids
               /\ t.depends_on \subseteq completed_ids) => t \in Range(ready')
        /\ tasks' = tasks
        /\ completed_ids' = completed_ids
        /\ active_files' = active_files
      ]_vars

\* a call on three tasks that returns two of them, out of input order,
\* while a file is locked and a task is completed
C7_Witness ==
    /\ pc = "returned"
    /\ Len(tasks) = 3
    /\ Len(ready) = 2
    /\ IndexOf(tasks, ready[1].id) > IndexOf(tasks, ready[2].id)
    /\ active_files # {}
    /\ completed_ids # {}

\* C8: a task is launched only when all its dependencies are completed (so
\* none of them is executing, in its pipeline or failed), and a task whose
\* execution produced a pull request enters completed_ids only in the step
\* that takes a LANDED outcome from its pipeline future.
C8_DependenciesLanded ==
    [][/\ \A t \in TaskIds : Launched(t) =>
              /\ TaskById(t).depends_on \subseteq completed_ids
              /\ TaskById(t).depends_on
                     \cap (InFlight \cup InPipeline \cup failed_ids) = {}
       /\ \A t \in TaskIds :
              (/\ t \notin completed_ids
               /\ t \in completed_ids'
               /\ results'[t] # <<>>
               /\ Last(results'[t]).pr_url # None) =>
                  /\ review_future[t] = "landed"
                  /\ review_future'[t] = "none"
                  /\ t \notin Range(review_futures')
      ]_vars

\* a task runs after the task it depends on landed through the pipeline
C8_Witness ==
    \E t \in InFlight :
        \E d \in TaskById(t).depends_on :
            /\ d # t
            /\ d \in completed_ids
            /\ results[d] # <<>>
            /\ Last(results[d]).pr_url # None

\* what the handler of a finished execution does for a failed attempt
FailedAttemptHandled(t) ==
    /\ worker_future[t] \in {"fail", "raise"}
    /\ worker_future'[t] # worker_future[t]

\* C9: a failed execution is relaunched iff the retry count is below
\* max_retries, the count then grows by one and the relaunch uses
\* -retry-<count>; otherwise the task enters failed_ids.  retry_counts never
\* exceeds max_retries and a task runs at most max_retries + 1 times.
C9_BoundedRetry ==
    /\ [](\A t \in TaskIds :
              /\ RetryCount(retry_counts, t) <= max_retries
              /\ Len(workers[t]) <= max_retries + 1)
    /\ [][\A t \in TaskIds : FailedAttemptHandled(t) =>
              IF RetryCount(retry_counts, t) < max_retries
              THEN /\ Launched(t)
                   /\ t \in Range(active_workers')
                   /\ t \notin failed_ids'
                   /\ RetryCount(retry_counts', t)
                          = RetryCount(retry_counts, t) + 1
                   /\ Last(workers'[t]) =
                          Worker(TaskById(t),
                                 RetrySuffix(RetryCount(retry_counts', t)))
              ELSE /\ ~Launched(t)
                   /\ t \in failed_ids'
         ]_vars

\* the workspace names the tests of test_retry.py expect, per task id
ExpectedName ==
       ("a" :> <<"a", "-", "a", "d", "d", "-", "x">>)
    @@ ("b" :> <<"b", "-", "f", "i", "x", "-", "b", "u", "g">>)

AgentPrefix == <<"a", "g", "e", "n", "t", "/">>
RetryTag == <<"-", "r", "e", "t", "r", "y", "-">>

EndsWith(s, suffix) ==
    /\ Len(s) >= Len(suffix)
    /\ SubSeq(s, Len(s) - Len(suffix) + 1, Len(s)) = suffix

\* the expected branch and last path component for retry number n (0: none)
ExpectedBranch ==
    [t \in DOMAIN ExpectedName |-> [n \in 0..MaxRetries |->
        AgentPrefix \o ExpectedName[t]
            \o (IF n = 0 THEN <<>> ELSE RetryTag \o <<DigitChars[n + 1]>>)]]

ExpectedDir ==
    [t \in DOMAIN ExpectedName |-> [n \in 0..MaxRetries |->
        <<"/">> \o ExpectedName[t]
            \o (IF n = 0 THEN <<>> ELSE RetryTag \o <<DigitChars[n + 1]>>)]]

\* the identifiers of a Worker of task t carry the retry number n (0: none)
HasRetryNumber(w, t, n) ==
    /\ w.branch = ExpectedBranch[t][n]
    /\ EndsWith(w.worktree_path, ExpectedDir[t][n])

AbsMaxFixes == pipeline.max_fix_attempts + pipeline.extra_attempts_buffer
PipelineLanded == pipeline.pc = "returned" /\ pipeline.ret[1]
PipelineFailed == pipeline.pc = "returned" /\ ~pipeline.ret[1]
ExternalCalls ==
    calls.reviewer + calls.fixer + calls.query + calls.requery
        + calls.resolver + calls.poll + calls.merge + calls.pull
        + calls.followup
ReadinessQueries == {"query", "requery", "poll"}
ErrorCount(round) == calls.error_counts[round + 1]   \* rounds are 0-based

\* C11: whatever the reviews say, one pipeline run calls the fixer at most
\* max_fix_attempts + buffer times and the reviewer at most once more; the
\* run makes a bounded number of calls in all, never leaves by an exception,
\* and what it returns is LANDED (True, "") or FAILED (False, error text).
C11_BoundedRounds ==
    /\ calls.fixer <= AbsMaxFixes
    /\ calls.reviewer <= AbsMaxFixes + 1
    /\ ExternalCalls <= (2 * AbsMaxFixes + 1) + 1 + UnknownRetries + 1
                            + POST_RESOLVE_MERGEABILITY_MAX_RETRIES + 3
    /\ pipeline.pc # "raised"
    /\ pipeline.pc = "returned" =>
           \/ pipeline.ret = <<TRUE, "">>
           \/ ~pipeline.ret[1] /\ pipeline.ret[2] # ""

\* the run that stops at the hard ceiling although the last review showed
\* progress
C11_Witness ==
    /\ PipelineFailed
    /\ pipeline.extra_attempts_buffer > 0
    /\ calls.fixer = AbsMaxFixes
    /\ calls.reviewer = AbsMaxFixes + 1
    /\ Len(calls.error_counts) = calls.reviewer
    /\ ErrorCount(calls.reviewer - 1) < ErrorCount(calls.reviewer - 2)

\* C12: in review round i (0-based) with verdict request_changes the fixer
\* runs next iff i < maxFix, or maxFix <= i < maxFix + buffer and round i
\* has strictly fewer errors than round i-1; otherwise the run fails.  With
\* maxFix = 2 and buffer = 3 the error counts 5,5,5, all three reviews
\* asking for changes, fail at the third review after exactly 2 fixes, and
\* 5,4,3,2,1,0 runs 5 fixes and is approved at the sixth review.
C12_ProgressAwareBudget ==
    /\ [](pipeline.max_fix_attempts = 2 /\ pipeline.extra_attempts_buffer = 3
            => /\ calls.error_counts = <<5, 5, 5>>
                      /\ pipeline.review.verdict = "request_changes"
                   => PipelineFailed /\ calls.fixer = 2 /\ calls.reviewer = 3
               /\ calls.error_counts = <<5, 4, 3, 2, 1, 0>>
                   => /\ pipeline.pc = "mergeable"
                      /\ pipeline.review.verdict = "approve"
                      /\ calls.fixer = 5 /\ calls.reviewer = 6)
    /\ [][LET i == Len(calls.error_counts)
              maxFix == pipeline.max_fix_attempts
              buffer == pipeline.extra_attempts_buffer
          IN  Len(calls'.error_counts) = i + 1
                  /\ pipeline'.review.verdict = "request_changes"
              => /\ pipeline'.pc = "fix"
                     <=> \/ i < maxFix
                         \/ /\ maxFix <= i /\ i < maxFix + buffer
                            /\ i >= 1
                            /\ calls'.error_counts[i + 1]
                                   < calls'.error_counts[i]
                 /\ pipeline'.pc # "fix" => PipelineFailed']_vars

C12_Witness ==
    /\ pipeline.max_fix_attempts = 2 /\ pipeline.extra_attempts_buffer = 3
    /\ calls.error_counts = <<5, 4, 3, 2, 1, 0>>
    /\ calls.fixer = 5

\* C13: the verdict the pipeline acts on is request_changes exactly when
\* the review has an error-severity finding, whatever the evaluator said,
\* and a pull request is merged only when its last review had no errors.
C13_VerdictFollowsErrors ==
    /\ calls.error_counts # <<>> =>
           (pipeline.review.verdict = "request_changes"
                <=> pipeline.review.errors > 0)
    /\ calls.merge > 0 => pipeline.review.errors = 0

C15_FixFailureIsFatal ==
    /\ [](calls.last[1] = "fixer" /\ calls.last[2] \in {"failed", "raise"}
            => PipelineFailed /\ calls.merge = 0)
    /\ [][pipeline.pc = "returned"
            => calls' = calls /\ pipeline' = pipeline]_vars

C15_Witness ==
    /\ calls.last = <<"fixer", "failed">>
    /\ calls.fixer = 2
    /\ PipelineFailed

\* C16: the merge command runs only when the most recent readiness query
\* returned MERGEABLE, at most once per run; the run is LANDED only if that
\* command succeeded; after an approve verdict there is no review or fix.
C16_MergeOnlyWhenMergeable ==
    /\ [](/\ calls.merge <= 1
          /\ pipeline.pc = "merge"
                 => /\ calls.last[1] \in ReadinessQueries
                    /\ calls.last[2] = "MERGEABLE"
          /\ PipelineLanded => calls.merge = 1)
    /\ [][/\ calls'.merge > calls.merge => pipeline.pc = "merge"
          /\ calls'.last[1] = "merge" /\ calls'.last[2] # "ok"
                 /\ calls' # calls
                 => PipelineFailed'
          /\ pipeline.review.verdict = "approve"
                 => /\ calls'.reviewer = calls.reviewer
                    /\ calls'.fixer = calls.fixer
                    /\ pipeline'.pc \notin {"review", "fix"}]_vars

\* merged after the resolver removed a conflict
C16_Witness ==
    /\ PipelineLanded
    /\ calls.resolver = 1
    /\ calls.merge = 1

\* C17: once the merge command has succeeded the outcome is LANDED, whatever
\* the local pull and the follow-up step do.
C17_LandedAfterMerge ==
    calls.pull > 0 /\ pipeline.pc = "returned" => pipeline.ret = <<TRUE, "">>

\* C18: after approval an UNKNOWN readiness is re-queried at most 3 times
\* and, if still indeterminate, handled as CONFLICTING; the resolver runs at
\* most once; when it fails, or when readiness after it, polled at most 5
\* times, is not MERGEABLE, the run is FAILED and the merge never ran.
C18_BoundedReadinessPolling ==
    /\ [](/\ calls.query <= 1
          /\ calls.requery <= UnknownRetries
          /\ calls.resolver <= 1
          /\ calls.poll <= POST_RESOLVE_MERGEABILITY_MAX_RETRIES
          /\ pipeline.pc = "resolve" => pipeline.mergeable = "CONFLICTING"
          /\ calls.last[1] = "resolver" /\ calls.last[2] # "resolved"
                 => PipelineFailed /\ calls.merge = 0)
    /\ [][/\ pipeline.pc = "unknown_retry" /\ pipeline.mergeable = "UNKNOWN"
                 /\ calls'.last[2] \in {"UNKNOWN", "", "exit_nonzero"}
                 /\ pipeline'.pc # "unknown_retry"
                 => pipeline'.pc = "resolve"
          /\ pipeline.pc = "unknown_retry" /\ pipeline'.pc = "unknown_retry"
                 => calls'.last = <<"requery", "UNKNOWN">>
          /\ pipeline.pc = "post_resolve" /\ pipeline'.pc # "post_resolve"
                 /\ calls'.last[2] # "MERGEABLE"
                 => PipelineFailed' /\ calls'.merge = 0
          /\ pipeline.pc = "post_resolve" /\ pipeline'.pc = "merge"
                 => calls'.last = <<"poll", "MERGEABLE">>]_vars

\* three re-queries and five polls after the resolution, all UNKNOWN
C18_Witness ==
    /\ calls.requery = UnknownRetries
    /\ calls.poll = POST_RESOLVE_MERGEABILITY_MAX_RETRIES
    /\ calls.last = <<"poll", "UNKNOWN">>
    /\ PipelineFailed

(***************************************************************************)
(* Properties of the scheduler's handling of pipeline outcomes and of its  *)
(* termination                                                             *)
(***************************************************************************)
\* the task was handed to the pipeline: it has a successful result with a
\* pull request
PipelineStarted(t) ==
    \E i \in DOMAIN results[t] : results[t][i].pr_url # None

\* C19: a FAILED pipeline outcome puts the task in failed_ids, whatever its
\* retry count, and leaves retry_counts as it was; no worker is spawned for
\* a task once its pipeline has started.
C19_PipelineFailureIsFinal ==
    [][\A t \in TaskIds :
         /\ review_future[t] = "failed" /\ review_future'[t] = "none"
                => /\ t \in failed_ids' /\ t \notin completed_ids'
                   /\ t \notin Range(active_workers')
                   /\ retry_counts' = retry_counts
         /\ PipelineStarted(t) => ~Launched(t)]_vars

\* a task failed by its pipeline with retries left and a single execution
C19_Witness ==
    \E t \in TaskIds :
        /\ t \in failed_ids
        /\ PipelineStarted(t)
        /\ RetryCount(retry_counts, t) < max_retries
        /\ Len(workers[t]) = 1
        /\ pc = "exited"

\* what the loop's three exits test, on the collections as the tick left
\* them: every task settled; nothing in flight and no task of the current
\* tier eligible; the tier at or above --max-priority settled
AllSettled == Cardinality(completed_ids \cup failed_ids) = Len(tasks)
Eligible(t) ==
    /\ t.id \notin completed_ids \cup failed_ids
    /\ t.id \notin Range(active_workers) \cup Range(review_futures)
    /\ t.depends_on \subseteq completed_ids
    /\ t.files_touched \cap active_files = {}
    /\ t.priority = sorted_priorities[current_priority_idx + 1]
NothingToDo ==
    /\ active_workers = <<>>
    /\ review_futures = <<>>
    /\ \A t \in Range(tasks) : ~Eligible(t)
MaxPriorityStop ==
    LET this_priority == sorted_priorities[current_priority_idx + 1]
        group == {t \in Range(tasks) : t.priority = this_priority}
    IN  /\ max_priority # NoPriority
        /\ this_priority >= max_priority
        /\ \A t \in group : t.id \in completed_ids \cup failed_ids
        /\ \A t \in group :
               t.id \notin Range(active_workers) \cup Range(review_futures)

LoopStops == AllSettled \/ NothingToDo \/ MaxPriorityStop

\* C20: with every execution and pipeline in flight finishing, the loop
\* terminates for every batch, also with cyclic, self, failed or later-tier
\* dependencies; a tick ends the loop exactly when every task is settled,
\* or nothing is in flight and no task of the current tier is eligible, or
\* the max-priority stop is reached.
C20_LoopTerminates ==
    /\ <>(pc = "exited")
    /\ [][(/\ pc \in {"top", "sleep", "workers", "reviews"}
           /\ pc' \in {"sleep", "dispatch", "exited"})
              => (pc' = "exited" <=> LoopStops')]_vars

\* the loop left two tasks unsettled that depend on each other
C20_Witness ==
    /\ pc = "exited"
    /\ completed_ids \cup failed_ids = {}
    /\ \A t \in Range(tasks) : t.depends_on # {} /\ t.id \notin t.depends_on

(***************************************************************************)
(* --max-priority                                                          *)
(***************************************************************************)
\* C21: with max_priority M configured no task with a priority greater
\* than M is ever dispatched, also when M is not the priority of any task
\* of the batch; the run stops when the last tier with priority <= M has
\* settled.
C21_MaxPriorityCeiling ==
    [][\A t \in TaskIds :
          (max_priority # NoPriority /\ Launched(t))
              => TaskById(t).priority <= max_priority]_vars

(***************************************************************************)
(* load_tasks                                                              *)
(***************************************************************************)
DistinctIds(ts) ==
    \A i, j \in DOMAIN ts : i # j => ts[i].id # ts[j].id
DepsExist(ts) ==
    \A t \in Range(ts) : t.depends_on \subseteq {u.id : u \in Range(ts)}
MissingOrEmpty(doc) == "tasks" \notin DOMAIN doc \/ doc.tasks = <<>>

\* C22: load_tasks either returns a batch, the entries of the document in
\* their order, whose ids are pairwise distinct and whose depends_on ids are
\* all ids of the batch, or it raises and binds no batch; it raises exactly
\* for a duplicate id, a dependency on an id that is not in the document,
\* or a missing or empty task list.
C22_LoadedBatchIsValid ==
    /\ pc = "loaded" =>
          /\ ~MissingOrEmpty(data)
          /\ Len(tasks) = Len(data.tasks)
          /\ \A i \in DOMAIN tasks :
                /\ tasks[i].id = data.tasks[i].id
                /\ tasks[i].depends_on = data.tasks[i].depends_on
          /\ DistinctIds(tasks)
          /\ DepsExist(tasks)
    /\ pc = "raised" =>
          /\ tasks = <<>>
          /\ \/ MissingOrEmpty(data)
             \/ ~DistinctIds(data.tasks)
             \/ ~DepsExist(data.tasks)

\* a returned batch of three tasks with a dependency cycle among them
C22_Witness ==
    /\ pc = "loaded"
    /\ Len(tasks) = 3
    /\ \E t, u \in Range(tasks) :
          t.id # u.id /\ u.id \in t.depends_on /\ t.id \in u.depends_on

(***************************************************************************)
(* dry_run_plan                                                            *)
(***************************************************************************)
\* the ids whose dependencies can all be satisfied: the least set closed
\* under "every dependency is in the set"
RECURSIVE Satisfiable(_)
Satisfiable(ids) ==
    LET more == ids \cup {t.id : t \in {u \in Range(tasks) :
                                           u.depends_on \subseteq ids}}
    IN  IF more = ids THEN ids ELSE Satisfiable(more)

WavesOf(id) ==
    {w \in DOMAIN plan.waves : \E t \in Range(plan.waves[w]) : t.id = id}

WaveIds(w) == {t.id : t \in Range(plan.waves[w])}

\* C23: the planner terminates on every batch; every task is in exactly
\* one wave or named in the warning, never both; the warning is printed
\* exactly when some task has a dependency that no wave can satisfy, and
\* names those tasks.
C23_DryRunTerminates ==
    /\ <>(plan.pc = "returned")
    /\ [](plan.pc \in {"print", "returned"} =>
            LET unscheduled == Range(plan.unscheduled)
                stuck == {t.id : t \in Range(tasks)} \ Satisfiable({})
            IN  /\ \A t \in Range(tasks) :
                      IF t.id \in unscheduled
                      THEN WavesOf(t.id) = {}
                      ELSE Cardinality(WavesOf(t.id)) = 1
                /\ Len(plan.unscheduled) = Cardinality(unscheduled)
                /\ plan.warning <=> stuck # {}
                /\ unscheduled = stuck)

\* a plan with a wave and a warning: one task scheduled, two waiting on
\* each other
C23_Witness ==
    /\ plan.pc = "returned"
    /\ plan.warning
    /\ Len(plan.waves) = 1
    /\ Len(plan.unscheduled) = 2
    /\ \A t \in Range(tasks) : t.id \notin t.depends_on

\* C24: for A(files x, priority 1), B(files x, priority 1),
\* C(files y, priority 2, depends on A) the planner prints wave 1 = {A} and
\* wave 2 = {B}, and C in a wave after those of its dependency A and of the
\* tier-1 task B.
C24_ExampleWaves ==
    (tasks = ExampleBatch /\ plan.pc = "returned") =>
        /\ Len(plan.waves) >= 2
        /\ WaveIds(1) = {"a"}
        /\ WaveIds(2) = {"b"}
        /\ \A w \in WavesOf("c") : w > 2

(***************************************************************************)
(* One task, end to end                                                    *)
(***************************************************************************)
\* the first execution of the task returned success with a pull request
FirstExecutionSucceeded ==
    /\ results["a"] # <<>>
    /\ results["a"][1].branch = workers["a"][1].branch
    /\ results["a"][1].pr_url # None

\* no call of the reviewer raised
ReviewsReturned == calls.reviewer = Len(calls.error_counts)

\* the first readiness query answered MERGEABLE and the merge command
\* exited with 0
MergedAtOnce ==
    /\ calls.query = 1
    /\ calls.requery = 0
    /\ calls.resolver = 0
    /\ pipeline.mergeable = "MERGEABLE"
    /\ calls.merge = 1
    /\ calls.pull = 1

\* C25: a single task without files_touched whose execution succeeds with
\* a pull request and whose first review approves with zero findings, with
\* readiness MERGEABLE and a successful merge: the run ends with
\* completed = {task}, failed = {}, one execution, one review, no fix.
C25_CleanRunLands ==
    (/\ pc = "exited"
     /\ FirstExecutionSucceeded
     /\ ReviewsReturned
     /\ calls.reviewer >= 1
     /\ calls.error_counts[1] = 0
     /\ MergedAtOnce)
        => /\ completed_ids = {"a"}
           /\ failed_ids = {}
           /\ Len(workers["a"]) = 1
           /\ calls.reviewer = 1
           /\ calls.fixer = 0

\* every review of the run returned request_changes with exactly one error
AlwaysOneError ==
    /\ PipelineStarted("a")
    /\ pipeline.pc = "returned"
    /\ ReviewsReturned
    /\ calls.reviewer >= 1
    /\ \A i \in DOMAIN calls.error_counts : calls.error_counts[i] = 1
    /\ pipeline.review.verdict = "request_changes"

\* the last call of the pipeline was not a fixer that failed or raised
FixesSucceeded == calls.last[1] # "fixer"

BudgetExhausted ==
    /\ calls.fixer = 2
    /\ calls.reviewer = 3
    /\ pipeline.ret =
           <<FALSE,
             "**Review step failed**: PR was not approved after 2 fix attempt(s)">>
    /\ failed_ids = {"a"}
    /\ completed_ids = {}

MarksOf(t, kind) == {i \in DOMAIN marks[t] : marks[t][i][1] = kind}

C29_SnapshotConsistent ==
    LET snapshot == status_dict
        counts == snapshot.tasks
    IN  /\ counts.queued + counts.active + counts.reviewing
               + counts.completed + counts.failed = counts.total
        /\ counts.queued >= 0 /\ counts.active >= 0 /\ counts.reviewing >= 0
        /\ counts.completed >= 0 /\ counts.failed >= 0
        /\ snapshot.retries = retry_counts
        /\ DOMAIN snapshot.workers = InFlight \cup InPipeline
        /\ \A t \in InFlight :
              /\ snapshot.workers[t].status = "running"
              /\ snapshot.workers[t].retries =
                     (IF t \in DOMAIN retry_counts THEN retry_counts[t] ELSE 0)
        /\ \A t \in InPipeline :
              /\ snapshot.workers[t].status = "reviewing"
              /\ snapshot.workers[t].retries =
                     (IF t \in DOMAIN retry_counts THEN retry_counts[t] ELSE 0)

\* a retried execution in flight next to a pipeline in flight
C29_Witness ==
    /\ \E t \in InFlight : t \in DOMAIN retry_counts /\ retry_counts[t] > 0
    /\ InPipeline # {}
    /\ status_dict.tasks.queued = 0

(***************************************************************************)
(* Eligibility                                                             *)
(***************************************************************************)
\* C30: eligibility does not flap: a task of the current tier that is
\* eligible (unsettled, not in flight, dependencies completed, files free)
\* and is not launched by a step is still eligible after the step, unless
\* the step dispatched or relaunched another task that touches one of its
\* files; a completion, a failure or a pipeline outcome of another task
\* never makes it ineligible.
C30_EligibilityDoesNotFlap ==
    [][\A i \in DOMAIN tasks :
          (Eligible(tasks[i]) /\ ~Launched(tasks[i].id)) =>
              \/ Eligible(tasks[i])'
              \/ \E j \in DOMAIN tasks :
                    /\ j # i
                    /\ Launched(tasks[j].id)
                    /\ tasks[j].files_touched
                           \cap tasks[i].files_touched # {}]_vars

\* a task waits, eligible, at the sleep of a tick while one task of its
\* tier has settled and another, retried, is in flight
C30_Witness ==
    /\ pc = "sleep"
    /\ \E i \in DOMAIN tasks :
          /\ Eligible(tasks[i])
          /\ \E u \in InFlight : u \in DOMAIN retry_counts
          /\ Settled # {}

(***************************************************************************)
(* Pipelines and the execution cap                                         *)
(***************************************************************************)
\* C31: a task in its review/fix/merge pipeline holds no file lock and no
\* execution slot: every locked file is touched by an execution in flight,
\* and when a tick has ended with an eligible task left waiting, the
\* executions in flight alone fill the max_workers slots, whatever the
\* number of pipelines.
C31_PipelineHoldsNothing ==
    /\ \A f \in active_files : \E t \in InFlight : f \in FilesOf(t)
    /\ (pc = "sleep" /\ \E i \in DOMAIN tasks : Eligible(tasks[i]))
           => Len(active_workers) = max_workers

\* with a single slot, a task runs while a task of its tier that touches
\* the same file is still in its pipeline
C31_Witness ==
    /\ max_workers = 1
    /\ \E t \in InPipeline, u \in InFlight :
          /\ review_future[t] = "pending"
          /\ worker_future[u] = "pending"
          /\ TaskById(t).priority = TaskById(u).priority
          /\ FilesOf(t) \cap FilesOf(u) # {}

(***************************************************************************)
(* The worker pool and the task descriptions                               *)
(***************************************************************************)
PoolStep == WorkerFinishes \/ PipelineFinishes \/ Enrich

Augmentations(text) ==
    Cardinality({i \in DOMAIN text : text[i] = "## Architect Spec"})

StepsOfSuccess ==
    <<"setup", "agent", "scope", "verify", "rebase", "push", "create_pr",
      "cleanup", "save_log">>
IsPrefix(a, b) == Len(a) <= Len(b) /\ SubSeq(b, 1, Len(a)) = a
RunEnded == run.pc \in {"returned", "raised"}

\* C34: Worker.run does not raise for a failure of setup, agent, change
\* verification, push or pull-request creation: the failure leads to the
\* finally block with success false and a non-empty error.  A result has
\* success true only if setup, agent, scope enforcement, change
\* verification, push and request creation ran in that order, and then its
\* pr_number is set.  On every path the cleanup and the log write are
\* reached, in that order, as the last two steps.
C34_RunReturnsFailures ==
    /\ run.error # "" =>
           /\ ~run.success
           /\ run.pc \in {"cleanup", "save_log", "returned", "raised"}
    /\ run.success =>
           /\ IsPrefix(SubSeq(StepsOfSuccess, 1, 7), run.steps)
           /\ run.pr_number # NoPrNumber
           /\ run.error = ""
    /\ RunEnded =>
           /\ Len(run.steps) >= 2
           /\ run.steps[Len(run.steps) - 1] = "cleanup"
           /\ run.steps[Len(run.steps)] = "save_log"
    /\ (run.pc = "returned" /\ ~run.success) => run.error # ""

\* a run that failed in its push has passed the finally block and returned
C34_Witness ==
    /\ run.pc = "returned"
    /\ ~run.success
    /\ run.pushes = Len(PushDelays)
    /\ run.steps = <<"setup", "agent", "scope", "verify", "rebase", "push",
                     "cleanup", "save_log">>

\* the create calls made after the one at position i
CallsAfter(i) == Len(run.creates) - i

NoCallAfterExists ==
    \A i \in DOMAIN run.creates :
        run.creates[i][2] = "exists" => CallsAfter(i) = 0
OneSwitchOnMissingLabel ==
    \A i \in DOMAIN run.creates :
        (run.creates[i][1] # None /\ run.creates[i][2] = "no_label") =>
            /\ \A j \in (i + 1)..Len(run.creates) : run.creates[j][1] = None
            /\ run.pc = "create_pr" => run.label = None
TransientRetriesBounded ==
    /\ Cardinality({i \in DOMAIN run.creates :
                       run.creates[i][1] # None}) <= Len(CreateDelays)
    /\ Cardinality({i \in DOMAIN run.creates :
                       run.creates[i][1] = None}) <= Len(CreateDelays)
PushBounded == run.pushes <= Len(PushDelays)

\* C35: after a create call fails with 'already exists' no further create
\* call is made; a missing-label error causes exactly one switch to the
\* creation without label; transient errors are retried at most 3 times
\* per variant, so the create calls of an attempt are bounded; push is
\* attempted at most 3 times.
C35_CreateCallsBounded ==
    /\ NoCallAfterExists
    /\ OneSwitchOnMissingLabel
    /\ TransientRetriesBounded
    /\ PushBounded

(***************************************************************************)
(* _cleanup_failed_branch                                                  *)
(***************************************************************************)
\* C36: a call of _cleanup_failed_branch that has ended has attempted both
\* deletions, the remote one first and then the local one; a non-zero exit
\* of either is logged and not raised to the caller.
C36_BothDeletionsAttempted ==
    cleanup.pc \in {"returned", "raised"} =>
        /\ Len(cleanup.calls) = 2
        /\ cleanup.calls[1][1] = "push --delete"
        /\ cleanup.calls[2][1] = "branch -D"
        /\ cleanup.warnings =
               Cardinality({i \in 1..2 : cleanup.calls[i][2] = "nonzero"})
        /\ (\A i \in 1..2 : cleanup.calls[i][2] # "timeout")
               => cleanup.pc = "returned"

(***************************************************************************)
(* Retry counts                                                            *)
(***************************************************************************)
\* the retry executions spawned for task t: every launch but the first
RetriesSpawned(t) == IF workers[t] = <<>> THEN 0 ELSE Len(workers[t]) - 1

\* t entered failed_ids from the worker-future handler: none of its
\* executions returned success
FailedInExecution(t) ==
    /\ t \in failed_ids
    /\ \A i \in DOMAIN results[t] : ~results[t][i].success

\* C37: retry_counts[t] equals the number of retry executions spawned for
\* t, and a task that enters failed_ids because of execution failure has
\* run exactly max_retries + 1 attempts, also when the branch cleanup
\* before a relaunch raises.
C37_RetryCountIsSpawnCount ==
    \A t \in TaskIds :
        /\ RetryCount(retry_counts, t) = RetriesSpawned(t)
        /\ FailedInExecution(t) => Len(workers[t]) = max_retries + 1

(***************************************************************************)
(* Tasks that can never become eligible                                    *)
(***************************************************************************)
\* a set of tasks not yet launched, each of which waits for a failed
\* dependency, for a dependency in the set, or for the tier of a task of
\* the set
SelfSupporting(X) ==
    \A t \in X :
        /\ workers[t.id] = <<>>
        /\ \/ \E dep \in t.depends_on :
                 dep \in failed_ids \/ \E u \in X : u.id = dep
           \/ \E u \in X : u.priority < t.priority

\* the tasks that can never become eligible
NeverEligible == UNION {X \in SUBSET Range(tasks) : SelfSupporting(X)}

CurrentTier == sorted_priorities[current_priority_idx + 1]

StuckForGood ==
    /\ [][\A t \in NeverEligible :
              t \in NeverEligible' /\ ~Launched(t.id)]_vars
    /\ [](\A t \in NeverEligible :
              /\ t.id \notin Settled
              /\ CurrentTier <= t.priority
              /\ \A u \in Range(tasks) :
                     u.priority > t.priority => workers[u.id] = <<>>)
    /\ <>(pc = "exited")

\* C38 as stated: a task that can never become eligible is never
\* dispatched and never settled, its tier never settles, no task of a later
\* tier is dispatched, and the run ends through the safety exit.
C38_AsStated ==
    /\ StuckForGood
    /\ []((pc = "exited" /\ NeverEligible # {}) =>
              (NothingToDo /\ ~AllSettled /\ ~MaxPriorityStop))

\* C38: a task that can never become eligible is never dispatched and
\* never settled, its tier never settles, no task of a later tier is
\* dispatched, and the run ends through the safety exit once nothing is in
\* flight, unless the max-priority stop ends it after an earlier tier.
C38_StuckTaskEndsRun ==
    /\ StuckForGood
    /\ []((pc = "exited" /\ NeverEligible # {}) =>
              /\ ~AllSettled
              /\ active_workers = <<>> /\ review_futures = <<>>
              /\ MaxPriorityStop \/ NothingToDo
              /\ max_priority = NoPriority => NothingToDo)

\* the run has ended with a first-tier task waiting for itself and a
\* second-tier task without dependencies that was never launched
C38_Witness ==
    /\ pc = "exited"
    /\ max_priority = NoPriority
    /\ \E t \in NeverEligible, u \in NeverEligible :
          /\ t.id \in t.depends_on
          /\ u.priority > t.priority
          /\ u.depends_on = {}
          /\ workers[u.id] = <<>>

(***************************************************************************)
(* The state at the exit of the loop                                       *)
(***************************************************************************)
\* C39: whenever the control loop has exited (all tasks settled, safety
\* exit or max-priority stop) the mapping of executions in flight, the
\* mapping of pipelines in flight and the set of locked files are empty,
\* and no future is pending.
C39_NothingInFlightAtExit ==
    pc = "exited" =>
        /\ active_workers = <<>>
        /\ review_futures = <<>>
        /\ active_files = {}
        /\ \A t \in TaskIds :
               worker_future[t] # "pending" /\ review_future[t] # "pending"

\* the loop has ended through the max-priority stop after a tier in which
\* one task landed and one failed, with the next tier untouched
C39_Witness ==
    /\ pc = "exited"
    /\ MaxPriorityStop
    /\ ~AllSettled
    /\ Settled # {}

(***************************************************************************)
(* The waves of a dry-run plan                                             *)
(***************************************************************************)
\* C40: in every dry-run plan, also while it is being built, each task
\* appears in at most one wave and at most once in it, every wave is
\* non-empty, no two tasks of a wave with non-empty file sets share a file,
\* and every dependency of a task in wave k is in a wave earlier than k.
C40_WavesWellFormed ==
    /\ \A t \in Range(tasks) : Cardinality(WavesOf(t.id)) <= 1
    /\ \A w \in DOMAIN plan.waves :
          LET wave == plan.waves[w]
          IN  /\ wave # <<>>
              /\ \A i, j \in DOMAIN wave :
                    i # j =>
                        /\ wave[i].id # wave[j].id
                        /\ wave[i].files_touched \cap wave[j].files_touched
                               = {}
              /\ \A i \in DOMAIN wave :
                    \A dep \in wave[i].depends_on :
                        \E v \in 1..(w - 1) : dep \in WaveIds(v)

\* a finished plan with two tasks side by side in one wave and a task that
\* waits for one of them in the next
C40_Witness ==
    /\ plan.pc = "returned"
    /\ ~plan.warning
    /\ Len(plan.waves) = 2
    /\ Len(plan.waves[1]) = 2
    /\ \E dep \in plan.waves[2][1].depends_on : dep \in WaveIds(1)

====
